---- MODULE Spec2Model ----
(***************************************************************************)
(* The NVMe queue-pair engine and the command-identifier pool of upcie:    *)
(* include/upcie/nvme/nvme_qpair.h and include/upcie/nvme/nvme_request.h,  *)
(* together with the device side of the SQ/CQ protocol they talk to.       *)
(***************************************************************************)
EXTENDS Integers, Sequences, FiniteSets, TLC

(* ---------------- program constants ---------------- *)
NVME_REQUEST_POOL_LEN == 1024
UINT16_MAX == 65535
CID_INVALID == 65535
EIO == 5
EAGAIN == 11
ENOMEM == 12
EINVAL == 22
ENOENT == 2
ETIMEDOUT == 110
NULL == -1
PAGESIZE == 4096
HUGEPGSZ == 2097152
SIZEOF_BLOCK == 24
QUEUE_NBYTES == 65536
AQ_DEPTH == 256
CAP_TO_MS == 500
BUF_NBYTES == 4096
BITS_PER_WORD == 64
NVME_QID_MAX == 65535
PRP_LIST_MAX == 512
PCI_NBARS == 6
PCI_BDF_LEN == 12
pagesize_shift == 12
HOSTMEM_BACKEND_MEMFD == 1
HOSTMEM_BACKEND_HUGETLBFS == 2
SIZEOF_COMMAND == 64
SIZEOF_COMPLETION == 16
NVME_QID_BITMAP_WORDS == NVME_QID_MAX \div BITS_PER_WORD

(* ---------------- bounds of the model ---------------- *)
MaxDepth == 2
MaxEnq == 4
MaxSubmit == 2
MaxAllocated == 3
MaxReap == 4
MaxPoolFree == 2
MaxHeld == 2
MaxCreate == 2
MaxPrpReqs == 1
MaxHugeOpen == 2
MaxDmaEnq == 2
MaxAlignedBlocks == 3

VARIABLES
    qp,          \* struct nvme_qpair: depth, tail, tail_last_written, head, phase
    sq,          \* the submission queue memory, slots 0..depth-1
    cq,          \* the completion queue memory, slots 0..depth-1
    rpool,       \* struct nvme_request_pool: stack (the cells written since init), top
    bar0,        \* the two doorbell registers of the queue pair in BAR0
    pc,          \* where the host is: "idle", or "reap" inside the polling loop
    caller,      \* which call runs the polling loop: "reap_cpl" or "submit_sync"
    i,           \* loop counter of nvme_qpair_reap_cpl
    timeout_us,  \* its timeout argument
    ucmd,        \* the caller's struct nvme_command
    req,         \* cid of the request nvme_qpair_submit_sync allocated
    cpl,         \* the caller's completion buffer
    ret,         \* return value of the last call that returned
    last,        \* name of the last host call
    tick,        \* flips at every host step
    mmio_log,    \* the MMIO writes of the last host step
    nsleep,      \* usleep() calls of the current nvme_qpair_reap_cpl call
    entry_top,   \* rpool.top at the entry of the last nvme_qpair_submit_sync
    dev,         \* device: sqhd, pending, cqtail, phase, cqfree
    nenq,        \* number of nvme_qpair_enqueue calls since init
    announced,   \* nenq at the last SQ doorbell write
    posted,      \* completions the device posted, in order
    nreap,       \* number of successful reaps since init
    issued,      \* cids handed out by alloc and not yet freed
    busy,        \* cids of enqueued commands whose completion was not reaped
    errno,       \* the C errno of the host thread
    heap,        \* struct hostmem_heap: the block list (freelist) and the heap size
    held,        \* payload pointers the caller got from the heap and has not freed
    entry,       \* resources at the entry of the last controller or heap call
    ctrlr,       \* struct nvme_controller: buf, aq, bars[0], timeout_ms
    qids,        \* ctrlr->qids: the bits set in the I/O qid bitmap
    ioq,         \* the I/O queue pairs nvme_controller_create_io_qpair created, in order
    cregs,       \* controller registers CAP.TO, CC, CSTS.RDY, ASQ, ACQ, AQA
    fds,         \* file descriptors the process has open
    rpools,      \* request pools obtained from calloc() and not free()d
    elapsed,     \* loop counter of nvme_mmio_csts_wait_until_{ready,not_ready}
    timeout_ms,  \* its timeout argument
    events,      \* MMIO events of the running nvme_controller_open, in order
    stage,       \* position inside nvme_controller_open / create_io_qpair
    prpcall,     \* the last PRP preparation: cid, dbuf, dbuf_nbytes, and cmd->prp1, cmd->prp2
    prpmem,      \* pool->prps and the 8-byte entries written to it, by entry index
    fcall,       \* the last call of a register or address helper: arguments and result
    func,        \* struct pci_func: bars[0..5], each with fd and region
    pcisys,      \* the BAR regions mapped, and the system calls of the last pci.h call
    hugepage,    \* struct hostmem_hugepage: fd, virt, size, phys, path
    g_hostmem_state, \* struct hostmem_state: backend, count
    hugesys,     \* the hugepage files that exist and the hugepage regions mapped
    dma          \* sqdev: the SQ as the device reads it; dw0: dword 0 of the CQEs; early: the
                 \* dword 0 a load ahead of the phase check returns; cpl_dw0: cpl->cdw0

vars == <<qp, sq, cq, rpool, bar0, pc, caller, i, timeout_us, ucmd, req, cpl, ret, last,
          tick, mmio_log, nsleep, entry_top, dev, nenq, announced, posted, nreap, issued, busy,
          errno, heap, held, entry, ctrlr, qids, ioq, cregs, fds, rpools, elapsed, timeout_ms,
          events, stage, prpcall, prpmem, fcall, func, pcisys, hugepage, g_hostmem_state,
          hugesys, dma>>

\* the hugepage allocator and what it holds of the system
hugevars == <<hugepage, g_hostmem_state, hugesys>>

\* the state of the heap, the controller and the registers
sysvars0 == <<heap, held, entry, ctrlr, qids, ioq, cregs, fds, rpools, elapsed, timeout_ms,
              events, stage, prpcall, prpmem, fcall, func, pcisys, hugevars>>

\* the same and the bus
sysvars == <<sysvars0, dma>>

\* the controller, its registers and the resources it owns besides heap blocks
ctlvars == <<ctrlr, qids, ioq, cregs, fds, rpools, elapsed, timeout_ms, events, stage>>

\* the locals of the queue-pair calls
loopvars == <<pc, caller, i, timeout_us, ucmd, req, cpl, nsleep, entry_top>>

\* the state of the queue pair, its request pool and its device side
qpvars == <<qp, sq, cq, rpool, bar0, dev, nenq, announced, posted, nreap, issued, busy,
            prpcall, prpmem, fcall, func, pcisys, hugevars, dma>>

hostvars == <<pc, caller, i, timeout_us, ucmd, req, cpl, ret, last, tick, mmio_log, nsleep,
              entry_top>>

(* ---------------- nvme_request.h ---------------- *)

\* reqs[k].cid as nvme_request_pool_init() sets it; no code writes it afterwards
ReqCid(k) == k

\* req->cid read through the pointer nvme_request_alloc() returned: the cid of the
\* slot for a slot of reqs[]; for an index past the array the read is out of bounds
\* and yields what lies there, any 16-bit value (the lowest and the highest cid of
\* the pool stand for them)
ReqCidRead(k) ==
    IF k < NVME_REQUEST_POOL_LEN THEN {ReqCid(k)} ELSE {0, NVME_REQUEST_POOL_LEN - 1}

\* stack[k] as nvme_request_pool_init() sets it: stack[LEN - 1 - i] = i
InitStack(k) == NVME_REQUEST_POOL_LEN - 1 - k

\* pool->stack[k]; pool.stack holds the cells whose value differs from InitStack
StackAt(pool, k) == IF k \in DOMAIN pool.stack THEN pool.stack[k] ELSE InitStack(k)

\* the store pool->stack[k] = v
StackStore(st, k, v) ==
    IF v = InitStack(k)
    THEN [x \in DOMAIN st \ {k} |-> st[x]]
    ELSE [x \in DOMAIN st \cup {k} |-> IF x = k THEN v ELSE st[x]]

\* nvme_request_pool_init(): top = LEN, every stack cell at its initial value
nvme_request_pool_init ==
    [stack |-> [x \in {} |-> 0], top |-> NVME_REQUEST_POOL_LEN]

\* nvme_request_alloc() that reads the top cell without popping it
nvme_request_alloc_keeps_top(pool) ==
    IF pool.top = 0
    THEN [errno |-> ENOMEM, pool |-> pool, req |-> NULL]
    ELSE [errno |-> 0, pool |-> pool, req |-> StackAt(pool, pool.top - 1)]

\* nvme_request_alloc(): pops the stack; req is the index of the request in reqs,
\* NULL with errno = ENOMEM when the stack is empty
nvme_request_alloc(pool) ==
    IF pool.top = 0
    THEN [errno |-> ENOMEM, pool |-> pool, req |-> NULL]
    ELSE [errno |-> 0,
          pool  |-> [pool EXCEPT !.top = pool.top - 1],
          req   |-> StackAt(pool, pool.top - 1)]

\* nvme_request_free() that stores the cid at the bottom of the stack
nvme_request_free_at_bottom(pool, cid) ==
    [pool EXCEPT !.stack = StackStore(pool.stack, 0, cid), !.top = pool.top + 1]

\* nvme_request_free() that leaves the pool alone when cid is on the free stack
nvme_request_free_checks_allocated(pool, cid) ==
    IF \E k \in 0..(pool.top - 1) : StackAt(pool, k) = cid
    THEN pool
    ELSE [pool EXCEPT !.stack = StackStore(pool.stack, pool.top, cid), !.top = pool.top + 1]

\* nvme_request_free(): pushes cid
nvme_request_free(pool, cid) ==
    [pool EXCEPT !.stack = StackStore(pool.stack, pool.top, cid), !.top = pool.top + 1]

(* ---------------- hostmem_heap.h ---------------- *)

\* hostmem_heap_init(): one free block that spans the heap; addresses are offsets
\* from heap->memory.virt
hostmem_heap_init(size) ==
    [freelist |-> <<[addr |-> 0, free |-> 1, size |-> size]>>, size |-> size]

\* size = (size + alignment - 1) & ~(alignment - 1), alignment a power of two
AlignUp(size, alignment) == ((size + alignment - 1) \div alignment) * alignment

\* the first-fit scan of hostmem_heap_block_alloc_aligned(): the index of the first
\* block from k on that is free and holds need bytes, 0 when the scan reaches the end
RECURSIVE FirstFit(_, _, _)
FirstFit(fl, need, k) ==
    IF k > Len(fl) THEN 0
    ELSE IF fl[k].free = 1 /\ fl[k].size >= need THEN k
    ELSE FirstFit(fl, need, k + 1)

\* hostmem_heap_block_alloc_aligned() that forgets the header page when it sizes
\* the block it splits off
hostmem_heap_block_alloc_aligned_header_uncounted(h, size, alignment) ==
    LET sz == AlignUp(size, alignment)
        fl == h.freelist
        k  == FirstFit(fl, sz + alignment, 1)
    IN IF k = 0
       THEN [errno |-> ENOMEM, heap |-> h, ptr |-> NULL]
       ELSE LET b == fl[k]
                remaining == b.size - sz
                newblock == [addr |-> b.addr + alignment + sz, free |-> 1,
                             size |-> remaining]
                split == SubSeq(fl, 1, k - 1)
                           \o <<[addr |-> b.addr, free |-> 0, size |-> sz], newblock>>
                           \o SubSeq(fl, k + 1, Len(fl))
            IN [errno |-> 0,
                heap  |-> [h EXCEPT !.freelist = IF remaining > SIZEOF_BLOCK
                                                 THEN split
                                                 ELSE [fl EXCEPT ![k].free = 0]],
                ptr   |-> b.addr + alignment]

\* hostmem_heap_block_alloc_aligned() that places the header of the block it
\* splits off at block + size, without the header page of the block it hands out
hostmem_heap_block_alloc_aligned_newblock_misplaced(h, size, alignment) ==
    LET sz == AlignUp(size, alignment)
        fl == h.freelist
        k  == FirstFit(fl, sz + alignment, 1)
    IN IF k = 0
       THEN [errno |-> ENOMEM, heap |-> h, ptr |-> NULL]
       ELSE LET b == fl[k]
                remaining == b.size - sz - alignment
                newblock == [addr |-> b.addr + sz, free |-> 1, size |-> remaining]
                split == SubSeq(fl, 1, k - 1)
                           \o <<[addr |-> b.addr, free |-> 0, size |-> sz], newblock>>
                           \o SubSeq(fl, k + 1, Len(fl))
            IN [errno |-> 0,
                heap  |-> [h EXCEPT !.freelist = IF remaining > SIZEOF_BLOCK
                                                 THEN split
                                                 ELSE [fl EXCEPT ![k].free = 0]],
                ptr   |-> b.addr + alignment]

\* hostmem_heap_block_alloc_aligned() that returns the address right behind the
\* block header instead of the block base plus alignment
hostmem_heap_block_alloc_aligned_ptr_after_header(h, size, alignment) ==
    LET sz == AlignUp(size, alignment)
        fl == h.freelist
        k  == FirstFit(fl, sz + alignment, 1)
    IN IF k = 0
       THEN [errno |-> ENOMEM, heap |-> h, ptr |-> NULL]
       ELSE LET b == fl[k]
                remaining == b.size - sz - alignment
                newblock == [addr |-> b.addr + alignment + sz, free |-> 1,
                             size |-> remaining]
                split == SubSeq(fl, 1, k - 1)
                           \o <<[addr |-> b.addr, free |-> 0, size |-> sz], newblock>>
                           \o SubSeq(fl, k + 1, Len(fl))
            IN [errno |-> 0,
                heap  |-> [h EXCEPT !.freelist = IF remaining > SIZEOF_BLOCK
                                                 THEN split
                                                 ELSE [fl EXCEPT ![k].free = 0]],
                ptr   |-> b.addr + SIZEOF_BLOCK]

\* hostmem_heap_block_alloc_aligned(): first fit; the block is split when what
\* remains is larger than a header; ptr is the block base plus alignment
hostmem_heap_block_alloc_aligned(h, size, alignment) ==
    LET sz == AlignUp(size, alignment)
        fl == h.freelist
        k  == FirstFit(fl, sz + alignment, 1)
    IN IF k = 0
       THEN [errno |-> ENOMEM, heap |-> h, ptr |-> NULL]
       ELSE LET b == fl[k]
                remaining == b.size - sz - alignment
                newblock == [addr |-> b.addr + alignment + sz, free |-> 1,
                             size |-> remaining]
                split == SubSeq(fl, 1, k - 1)
                           \o <<[addr |-> b.addr, free |-> 0, size |-> sz], newblock>>
                           \o SubSeq(fl, k + 1, Len(fl))
            IN [errno |-> 0,
                heap  |-> [h EXCEPT !.freelist = IF remaining > SIZEOF_BLOCK
                                                 THEN split
                                                 ELSE [fl EXCEPT ![k].free = 0]],
                ptr   |-> b.addr + alignment]

\* hostmem_heap_block_alloc(): alignment is the page size
hostmem_heap_block_alloc(h, size) == hostmem_heap_block_alloc_aligned(h, size, PAGESIZE)

\* the merging loop that steps to the next block after a merge
RECURSIVE Coalesce_steps_after_merge(_, _, _)
Coalesce_steps_after_merge(fl, k, alignment) ==
    IF k >= Len(fl) THEN fl
    ELSE IF fl[k].free = 1 /\ fl[k + 1].free = 1
    THEN Coalesce_steps_after_merge(
             SubSeq(fl, 1, k - 1)
               \o <<[fl[k] EXCEPT !.size = fl[k].size + alignment + fl[k + 1].size]>>
               \o SubSeq(fl, k + 2, Len(fl)),
             k + 1, alignment)
    ELSE Coalesce_steps_after_merge(fl, k + 1, alignment)

\* the merging loop of hostmem_heap_block_free() from block k on
RECURSIVE Coalesce(_, _, _)
Coalesce(fl, k, alignment) ==
    IF k >= Len(fl) THEN fl
    ELSE IF fl[k].free = 1 /\ fl[k + 1].free = 1
    THEN Coalesce(SubSeq(fl, 1, k - 1)
                    \o <<[fl[k] EXCEPT !.size = fl[k].size + alignment + fl[k + 1].size]>>
                    \o SubSeq(fl, k + 2, Len(fl)),
                  k, alignment)
    ELSE Coalesce(fl, k + 1, alignment)

\* hostmem_heap_block_free() that marks the block free and does not merge
hostmem_heap_block_free_no_merge(h, ptr) ==
    IF ptr = NULL THEN h
    ELSE [h EXCEPT !.freelist =
            [k \in DOMAIN h.freelist |->
               IF h.freelist[k].addr = ptr - PAGESIZE
               THEN [h.freelist[k] EXCEPT !.free = 1] ELSE h.freelist[k]]]

\* hostmem_heap_block_free(): the header is one page below ptr; mark it free, then
\* merge every run of free neighbours
hostmem_heap_block_free(h, ptr) ==
    IF ptr = NULL THEN h
    ELSE LET marked == [k \in DOMAIN h.freelist |->
                          IF h.freelist[k].addr = ptr - PAGESIZE
                          THEN [h.freelist[k] EXCEPT !.free = 1] ELSE h.freelist[k]]
         IN [h EXCEPT !.freelist = Coalesce(marked, 1, PAGESIZE)]

\* hostmem_heap_init() of a heap of several hugepages: the block list, and the
\* physical address of each hugepage as the pagemap gives it, in phys_lut
hostmem_heap_init_lut(size, lut) ==
    [freelist |-> hostmem_heap_init(size).freelist, phys_lut |-> lut, size |-> size]

\* hostmem_heap_block_virt_to_phys() that takes every address for one of the first
\* hugepage
hostmem_heap_block_virt_to_phys_first_hugepage(h, virt) ==
    IF virt = NULL \/ virt < 0 \/ virt >= h.size
    THEN [err |-> -EINVAL, phys |-> 0]
    ELSE [err |-> 0, phys |-> h.phys_lut[1] + (virt % HUGEPGSZ)]

\* hostmem_heap_block_virt_to_phys(): virt is an offset from the heap base; entry
\* hpage_idx of the C array phys_lut is h.phys_lut[hpage_idx + 1]
hostmem_heap_block_virt_to_phys(h, virt) ==
    LET offset == virt
        hpage_idx == offset \div HUGEPGSZ
        in_hpage_offset == offset % HUGEPGSZ
    IN IF virt = NULL \/ virt < 0 \/ virt >= h.size
       THEN [err |-> -EINVAL, phys |-> 0]
       ELSE IF hpage_idx >= Len(h.phys_lut)
       THEN [err |-> -EINVAL, phys |-> 0]
       ELSE [err |-> 0, phys |-> h.phys_lut[hpage_idx + 1] + in_hpage_offset]

\* hostmem_dma_malloc() and hostmem_dma_free() hand the call to the heap
hostmem_dma_malloc(h, size) == hostmem_heap_block_alloc(h, size)
hostmem_dma_free(h, ptr) == hostmem_heap_block_free(h, ptr)

\* hostmem_dma_v2p() of a heap of several hugepages, hostmem_heap_block_vtp(): the
\* lookup without the range checks
hostmem_heap_block_vtp(h, virt) ==
    LET offset == virt
        hpage_idx == offset \div HUGEPGSZ
        in_hpage_offset == offset % HUGEPGSZ
    IN h.phys_lut[hpage_idx + 1] + in_hpage_offset

(* ---------------- nvme_qpair.h ---------------- *)

ZeroCmd == [cid |-> 0, opc |-> 0]
ZeroCpl == [cid |-> 0, status |-> 0]

\* nvme_qpair_init(): the fields of the queue pair
nvme_qpair_init(depth) ==
    [depth |-> depth, head |-> 0, phase |-> 1, tail |-> 0,
     tail_last_written |-> UINT16_MAX]

\* nvme_qpair_enqueue() that increments tail without the modulo
nvme_qpair_enqueue_no_modulo(q, sqmem, cmd) ==
    [mmio |-> <<>>,
     qp   |-> [q EXCEPT !.tail = q.tail + 1],
     ret  |-> 0,
     sq   |-> [s \in DOMAIN sqmem \cup {q.tail} |-> IF s = q.tail THEN cmd ELSE sqmem[s]]]

\* nvme_qpair_enqueue(): sq[tail] = *cmd; tail = (tail + 1) % depth; return 0
nvme_qpair_enqueue(q, sqmem, cmd) ==
    [mmio |-> <<>>,
     qp   |-> [q EXCEPT !.tail = (q.tail + 1) % q.depth],
     ret  |-> 0,
     sq   |-> [sqmem EXCEPT ![q.tail] = cmd]]

\* nvme_qpair_sqdb_update() that writes the doorbell at every call
nvme_qpair_sqdb_update_always_writes(q) ==
    [mmio |-> << [reg |-> "sqdb", val |-> q.tail] >>,
     qp   |-> [q EXCEPT !.tail_last_written = q.tail]]

\* nvme_qpair_sqdb_update(): write tail to the SQ doorbell unless it was the last
\* value written
nvme_qpair_sqdb_update(q) ==
    IF q.tail = q.tail_last_written
    THEN [mmio |-> <<>>, qp |-> q]
    ELSE [mmio |-> << [reg |-> "sqdb", val |-> q.tail] >>,
          qp   |-> [q EXCEPT !.tail_last_written = q.tail]]

\* nvme_qpair_reap_cpl() whose head wraps without toggling the phase
nvme_qpair_reap_cpl_poll_keeps_phase(q, cqmem) ==
    LET cqe == cqmem[q.head] IN
    IF cqe.cid < CID_INVALID /\ (cqe.status % 2) = q.phase
    THEN LET q2 == [q EXCEPT !.head = (q.head + 1) % q.depth]
         IN [cpl |-> cqe, hit |-> TRUE,
             mmio |-> << [reg |-> "cqdb", val |-> q2.head] >>, qp |-> q2]
    ELSE [cpl |-> cqe, hit |-> FALSE, mmio |-> <<>>, qp |-> q]

\* nvme_qpair_reap_cpl() that takes any entry with a valid cid, whatever its phase
nvme_qpair_reap_cpl_poll_any_phase(q, cqmem) ==
    LET cqe == cqmem[q.head] IN
    IF cqe.cid < CID_INVALID
    THEN LET h == q.head + 1
             q2 == IF h = q.depth
                   THEN [q EXCEPT !.head = 0, !.phase = 1 - q.phase]
                   ELSE [q EXCEPT !.head = h]
         IN [cpl |-> cqe, hit |-> TRUE,
             mmio |-> << [reg |-> "cqdb", val |-> q2.head] >>, qp |-> q2]
    ELSE [cpl |-> cqe, hit |-> FALSE, mmio |-> <<>>, qp |-> q]

\* nvme_qpair_reap_cpl() that forgets to advance head
nvme_qpair_reap_cpl_poll_head_stuck(q, cqmem) ==
    LET cqe == cqmem[q.head] IN
    IF cqe.cid < CID_INVALID /\ (cqe.status % 2) = q.phase
    THEN [cpl |-> cqe, hit |-> TRUE,
          mmio |-> << [reg |-> "cqdb", val |-> q.head] >>, qp |-> q]
    ELSE [cpl |-> cqe, hit |-> FALSE, mmio |-> <<>>, qp |-> q]

\* one iteration of the loop of nvme_qpair_reap_cpl()
nvme_qpair_reap_cpl_poll(q, cqmem) ==
    LET cqe == cqmem[q.head] IN
    IF cqe.cid < CID_INVALID /\ (cqe.status % 2) = q.phase
    THEN LET h == q.head + 1
             q2 == IF h = q.depth
                   THEN [q EXCEPT !.head = 0, !.phase = 1 - q.phase]
                   ELSE [q EXCEPT !.head = h]
         IN [cpl |-> cqe, hit |-> TRUE,
             mmio |-> << [reg |-> "cqdb", val |-> q2.head] >>, qp |-> q2]
    ELSE [cpl |-> cqe, hit |-> FALSE, mmio |-> <<>>, qp |-> q]

\* nvme_qpair_submit_sync() that returns -EIO before freeing the request
nvme_qpair_submit_sync_tail_error_leaks(pool, err, c) ==
    IF err # 0
    THEN [pool |-> pool, ret |-> -err]
    ELSE IF (c.status \div 2) % 256 # 0
    THEN [pool |-> pool, ret |-> -EIO]
    ELSE [pool |-> nvme_request_free(pool, c.cid), ret |-> 0]

\* the tail of nvme_qpair_submit_sync() after the reap returned err
nvme_qpair_submit_sync_tail(pool, err, c) ==
    IF err # 0
    THEN [pool |-> pool, ret |-> -err]
    ELSE [pool |-> nvme_request_free(pool, c.cid),
          ret  |-> IF (c.status \div 2) % 256 # 0 THEN -EIO ELSE 0]

\* the accesses to memory shared with the device that each call makes, in program
\* order: barriers.h defines rmb(), wmb(), mb() and dma_rmb(), and none of the
\* three calls makes use of them
nvme_qpair_enqueue_memops == <<"store_sqe">>
nvme_qpair_sqdb_update_memops == <<"write_sqdb">>
nvme_qpair_reap_cpl_memops == <<"load_cid_status", "load_cqe", "write_cqdb">>

\* in the accesses ops, one of the barriers bars stands between access a and a later
\* access b
BarrierBetween(ops, a, b, bars) ==
    \E x, y, z \in DOMAIN ops :
        x < y /\ y < z /\ ops[x] = a /\ ops[y] \in bars /\ ops[z] = b

\* the doorbell write finds every SQE store in memory only behind a write barrier;
\* otherwise the stores reach memory when the host's store buffer drains
nvme_qpair_sqdb_update_sqdev(q, sqmem, sqdev) ==
    IF /\ nvme_qpair_sqdb_update(q).mmio # <<>>
       /\ BarrierBetween(nvme_qpair_enqueue_memops \o nvme_qpair_sqdb_update_memops,
                         "store_sqe", "write_sqdb", {"wmb", "mb"})
    THEN sqmem ELSE sqdev

\* what the copy *cpl = *cqe can take for dword 0 after the phase matched: the value
\* in memory, and without a read barrier also the value a load that ran ahead of the
\* phase check returned
nvme_qpair_reap_cpl_dw0(now, ahead) ==
    IF BarrierBetween(nvme_qpair_reap_cpl_memops, "load_cid_status", "load_cqe",
                      {"rmb", "dma_rmb", "mb"})
    THEN {now} ELSE {now, ahead}

(* ---------------- MMIO and the device ---------------- *)

\* mmio_write32() to a doorbell: the register takes the value
MmioApply(regs, log) ==
    IF log = <<>> THEN regs
    ELSE IF log[1].reg = "sqdb" THEN [regs EXCEPT !.sqdb = log[1].val]
    ELSE [regs EXCEPT !.cqdb = log[1].val]

\* the device learns of a released CQ slot with every CQ head doorbell write
DevAfterMmio(d, log) ==
    IF log # <<>> /\ log[1].reg = "cqdb" THEN [d EXCEPT !.cqfree = d.cqfree + 1] ELSE d

\* number of enqueued commands the SQ doorbell has announced after the writes of log
AnnouncedAfter(log, n) ==
    IF log # <<>> /\ log[1].reg = "sqdb" THEN n ELSE announced

(* ---------------- bitfield.h, nvme_mmio.h ---------------- *)

RECURSIVE Pow2(_)
Pow2(n) == IF n = 0 THEN 1 ELSE 2 * Pow2(n - 1)

\* bitfield_set(): the width bits of val at offset are replaced by field
bitfield_set(val, offset, width, field) ==
    val - ((val \div Pow2(offset)) % Pow2(width)) * Pow2(offset)
        + (field % Pow2(width)) * Pow2(offset)

nvme_reg_cc_set_en(cc, val) == bitfield_set(cc, 0, 1, val)
nvme_reg_cc_set_iosqes(cc, val) == bitfield_set(cc, 16, 4, val)
nvme_reg_cc_set_iocqes(cc, val) == bitfield_set(cc, 20, 4, val)

\* bitfield_get(): the width bits of val at offset
bitfield_get(val, offset, width) == (val \div Pow2(offset)) % Pow2(width)

\* the CC getters return uint8_t
nvme_reg_cc_get_en(cc) == bitfield_get(cc, 0, 1) % Pow2(8)
nvme_reg_cc_get_css(cc) == bitfield_get(cc, 4, 4) % Pow2(8)
nvme_reg_cc_get_mps(cc) == bitfield_get(cc, 7, 4) % Pow2(8)
nvme_reg_cc_get_ams(cc) == bitfield_get(cc, 11, 3) % Pow2(8)
nvme_reg_cc_get_shn(cc) == bitfield_get(cc, 14, 2) % Pow2(8)
nvme_reg_cc_get_iocqes(cc) == bitfield_get(cc, 20, 4) % Pow2(8)
nvme_reg_cc_get_iosqes(cc) == bitfield_get(cc, 24, 4) % Pow2(8)

\* the CC setters; a value below 2^31 stays below it, so uint32_t truncates nothing
nvme_reg_cc_set_css(cc, val) == bitfield_set(cc, 4, 3, val)
nvme_reg_cc_set_mps(cc, val) == bitfield_set(cc, 7, 4, val)
nvme_reg_cc_set_ams(cc, val) == bitfield_set(cc, 11, 3, val)
nvme_reg_cc_set_shn(cc, val) == bitfield_set(cc, 14, 2, val)

\* the CC fields that have a setter and a getter, and the accessors by field name
CcFields == {"EN", "CSS", "MPS", "AMS", "SHN", "IOSQES", "IOCQES"}

nvme_reg_cc_get(f, cc) ==
    CASE f = "EN" -> nvme_reg_cc_get_en(cc)
      [] f = "CSS" -> nvme_reg_cc_get_css(cc)
      [] f = "MPS" -> nvme_reg_cc_get_mps(cc)
      [] f = "AMS" -> nvme_reg_cc_get_ams(cc)
      [] f = "SHN" -> nvme_reg_cc_get_shn(cc)
      [] f = "IOSQES" -> nvme_reg_cc_get_iosqes(cc)
      [] f = "IOCQES" -> nvme_reg_cc_get_iocqes(cc)

nvme_reg_cc_set(f, cc, val) ==
    CASE f = "EN" -> nvme_reg_cc_set_en(cc, val)
      [] f = "CSS" -> nvme_reg_cc_set_css(cc, val)
      [] f = "MPS" -> nvme_reg_cc_set_mps(cc, val)
      [] f = "AMS" -> nvme_reg_cc_set_ams(cc, val)
      [] f = "SHN" -> nvme_reg_cc_set_shn(cc, val)
      [] f = "IOSQES" -> nvme_reg_cc_set_iosqes(cc, val)
      [] f = "IOCQES" -> nvme_reg_cc_set_iocqes(cc, val)

\* offset and width of the field a setter writes
CcLayout(f) ==
    CASE f = "EN" -> [offset |-> 0, width |-> 1]
      [] f = "CSS" -> [offset |-> 4, width |-> 3]
      [] f = "MPS" -> [offset |-> 7, width |-> 4]
      [] f = "AMS" -> [offset |-> 11, width |-> 3]
      [] f = "SHN" -> [offset |-> 14, width |-> 2]
      [] f = "IOSQES" -> [offset |-> 16, width |-> 4]
      [] f = "IOCQES" -> [offset |-> 20, width |-> 4]

\* the CC value nvme_controller_open() builds: css, shn, mps, ams zero,
\* iosqes = 6, iocqes = 4, en = 1
OpenCc == nvme_reg_cc_set_en(nvme_reg_cc_set_iocqes(nvme_reg_cc_set_iosqes(0, 6), 4), 1)

\* an MMIO write or a register read that ended a wait, as logged in events
Ev(op, reg, val) == [op |-> op, reg |-> reg, val |-> val]

\* nvme_mmio_cc_disable() that sets CC.EN instead of clearing it
nvme_mmio_cc_disable_sets_en(r) ==
    [ev |-> <<Ev("write", "cc", r.cc - (r.cc % 2) + 1)>>,
     regs |-> [r EXCEPT !.cc = r.cc - (r.cc % 2) + 1]]

\* nvme_mmio_cc_disable(): read CC, write it back with bit 0 cleared
nvme_mmio_cc_disable(r) ==
    [ev |-> <<Ev("write", "cc", r.cc - (r.cc % 2))>>,
     regs |-> [r EXCEPT !.cc = r.cc - (r.cc % 2)]]

\* nvme_mmio_cc_write()
nvme_mmio_cc_write(r, cc) ==
    [ev |-> <<Ev("write", "cc", cc)>>, regs |-> [r EXCEPT !.cc = cc]]

\* nvme_mmio_aq_setup(): ASQ, ACQ, then AQA = ((aqsize - 1) << 16) | (aqsize - 1)
nvme_mmio_aq_setup(r, asq, acq, aqsize) ==
    LET aqa == (aqsize - 1) * 65536 + (aqsize - 1) IN
    [ev |-> <<Ev("write", "asq", asq), Ev("write", "acq", acq), Ev("write", "aqa", aqa)>>,
     regs |-> [r EXCEPT !.acq = acq, !.aqa = aqa, !.asq = asq]]

\* the loop body of the wait functions without the ++elapsed of the for statement
nvme_mmio_csts_wait_step_elapsed_stuck(r, want, e, t) ==
    IF e < t
    THEN IF r.rdy = want
         THEN [done |-> TRUE, elapsed |-> e, err |-> 0, polled |-> TRUE]
         ELSE [done |-> FALSE, elapsed |-> e, err |-> 0, polled |-> TRUE]
    ELSE [done |-> TRUE, elapsed |-> e, err |-> -ETIMEDOUT, polled |-> FALSE]

\* the loop body of nvme_mmio_csts_wait_until_ready() (want = 1) and of
\* nvme_mmio_csts_wait_until_not_ready() (want = 0) at loop counter e:
\* done with err, or one more round after usleep()
nvme_mmio_csts_wait_step(r, want, e, t) ==
    IF e < t
    THEN IF r.rdy = want
         THEN [done |-> TRUE, elapsed |-> e, err |-> 0, polled |-> TRUE]
         ELSE [done |-> FALSE, elapsed |-> e + 1, err |-> 0, polled |-> TRUE]
    ELSE [done |-> TRUE, elapsed |-> e, err |-> -ETIMEDOUT, polled |-> FALSE]

\* hostmem_dma_v2p(): the heap is one hugepage, mapped at physical address HeapPhys
HeapPhys == 16 * HUGEPGSZ
hostmem_dma_v2p(ptr) == HeapPhys + ptr

(* ---------------- pci.h ---------------- *)

\* a text is a sequence of characters; the value of a hexadecimal digit, as sscanf's
\* %x reads it (either case), and -1 for any other character
HexVal(c) ==
    CASE c = "0" -> 0 [] c = "1" -> 1 [] c = "2" -> 2 [] c = "3" -> 3 [] c = "4" -> 4
      [] c = "5" -> 5 [] c = "6" -> 6 [] c = "7" -> 7 [] c = "8" -> 8 [] c = "9" -> 9
      [] c \in {"a", "A"} -> 10 [] c \in {"b", "B"} -> 11 [] c \in {"c", "C"} -> 12
      [] c \in {"d", "D"} -> 13 [] c \in {"e", "E"} -> 14 [] c \in {"f", "F"} -> 15
      [] OTHER -> -1

\* the digit printf's %x writes for n
HexChar(n) == <<"0", "1", "2", "3", "4", "5", "6", "7", "8", "9", "a", "b", "c", "d", "e", "f">>[n + 1]

\* sscanf's %<width>x at position pos: the digits consumed and their value
RECURSIVE ScanHex(_, _, _, _, _)
ScanHex(text, pos, width, n, val) ==
    IF n < width /\ pos + n <= Len(text) /\ HexVal(text[pos + n]) >= 0
    THEN ScanHex(text, pos, width, n + 1, 16 * val + HexVal(text[pos + n]))
    ELSE [n |-> n, val |-> val]

\* printf's %0<width>x of n: at least width digits
RECURSIVE PrintHex(_, _)
PrintHex(n, width) ==
    IF n < 16 /\ width <= 1
    THEN <<HexChar(n)>>
    ELSE Append(PrintHex(n \div 16, width - 1), HexChar(n % 16))

pci_addr_get_function(bdf) == bdf % 8
pci_addr_get_device(bdf) == (bdf \div 8) % 32
pci_addr_get_bus(bdf) == (bdf \div 256) % 256
pci_addr_get_domain(bdf) == (bdf \div 65536) % 65536

\* pci_addr_from_text() without the range check of the device number
pci_addr_from_text_device_unchecked(text, addr) ==
    LET domain == ScanHex(text, 1, 4, 0, 0)
        p1 == 1 + domain.n
        bus == ScanHex(text, p1 + 1, 2, 0, 0)
        p2 == p1 + 1 + bus.n
        device == ScanHex(text, p2 + 1, 2, 0, 0)
        p3 == p2 + 1 + device.n
        function == ScanHex(text, p3 + 1, 1, 0, 0)
        IsAt(p, c) == p <= Len(text) /\ text[p] = c
        fields == IF domain.n = 0 THEN 0
                  ELSE IF ~IsAt(p1, ":") \/ bus.n = 0 THEN 1
                  ELSE IF ~IsAt(p2, ":") \/ device.n = 0 THEN 2
                  ELSE IF ~IsAt(p3, ".") \/ function.n = 0 THEN 3
                  ELSE 4
    IN IF fields # 4
       THEN [err |-> -EINVAL, value |-> addr]
       ELSE IF domain.val > 65535 \/ bus.val > 255 \/ function.val > 7
       THEN [err |-> -EINVAL, value |-> addr]
       ELSE [err |-> 0,
             value |-> domain.val * 65536 + bus.val * 256 + device.val * 8 + function.val]

\* pci_addr_from_text(): sscanf() with "%4x:%2x:%2x.%1x" has to convert four fields,
\* each has to be in range; the fields are disjoint, so | adds them up; addr is the
\* value the struct had, kept on failure
pci_addr_from_text(text, addr) ==
    LET domain == ScanHex(text, 1, 4, 0, 0)
        p1 == 1 + domain.n
        bus == ScanHex(text, p1 + 1, 2, 0, 0)
        p2 == p1 + 1 + bus.n
        device == ScanHex(text, p2 + 1, 2, 0, 0)
        p3 == p2 + 1 + device.n
        function == ScanHex(text, p3 + 1, 1, 0, 0)
        IsAt(p, c) == p <= Len(text) /\ text[p] = c
        fields == IF domain.n = 0 THEN 0
                  ELSE IF ~IsAt(p1, ":") \/ bus.n = 0 THEN 1
                  ELSE IF ~IsAt(p2, ":") \/ device.n = 0 THEN 2
                  ELSE IF ~IsAt(p3, ".") \/ function.n = 0 THEN 3
                  ELSE 4
    IN IF fields # 4
       THEN [err |-> -EINVAL, value |-> addr]
       ELSE IF domain.val > 65535 \/ bus.val > 255 \/ device.val > 31 \/ function.val > 7
       THEN [err |-> -EINVAL, value |-> addr]
       ELSE [err |-> 0,
             value |-> domain.val * 65536 + bus.val * 256 + device.val * 8 + function.val]

\* pci_addr_to_text(): snprintf() with "%04x:%02x:%02x.%01x", cut to PCI_BDF_LEN
pci_addr_to_text(addr) ==
    LET full == PrintHex(pci_addr_get_domain(addr), 4) \o <<":">>
                  \o PrintHex(pci_addr_get_bus(addr), 2) \o <<":">>
                  \o PrintHex(pci_addr_get_device(addr), 2) \o <<".">>
                  \o PrintHex(pci_addr_get_function(addr), 1)
    IN SubSeq(full, 1, IF Len(full) < PCI_BDF_LEN THEN Len(full) ELSE PCI_BDF_LEN)

\* the descriptor open() returns: the lowest one not in use
RECURSIVE LowestFree(_, _)
LowestFree(used, k) == IF k \in used THEN LowestFree(used, k + 1) ELSE k

\* what mmap() returns: the address of the mapped BAR, or MAP_FAILED, which is not NULL
Bar0Region == 32 * HUGEPGSZ
MAP_FAILED == NULL - 1

\* pci_bar_map() with the outcome of its system calls: stat fails, open fails,
\* mmap fails (the fd is closed again, region is MAP_FAILED), or all succeed
pci_bar_map(bar, open_fds, outcome) ==
    LET fd == LowestFree(open_fds, 0) IN
    CASE outcome = "stat" -> [bar |-> bar, err |-> -ENOENT, fds |-> open_fds]
      [] outcome = "open" -> [bar |-> [bar EXCEPT !.fd = -1], err |-> -ENOENT,
                              fds |-> open_fds]
      [] outcome = "mmap" -> [bar |-> [fd |-> fd, region |-> MAP_FAILED],
                              err |-> -ENOMEM, fds |-> open_fds]
      [] OTHER            -> [bar |-> [fd |-> fd, region |-> Bar0Region], err |-> 0,
                              fds |-> open_fds \cup {fd}]

\* pci_bar_unmap(): a mapped region is unmapped and its fd closed
pci_bar_unmap(bar, open_fds) ==
    [bar |-> [fd |-> -1, region |-> NULL],
     fds |-> IF bar.region # NULL THEN open_fds \ {bar.fd} ELSE open_fds]

\* a system call on a descriptor or on a region, as logged in pcisys.log
Sys(op, arg) == [arg |-> arg, op |-> op]

\* what mmap() returns for BAR id: every mapping has an address of its own
BarRegion(id) == Bar0Region + id * HUGEPGSZ

\* the system calls pci_bar_map() makes on descriptors and regions
pci_bar_map_syscalls(id, open_fds, outcome) ==
    LET fd == LowestFree(open_fds, 0) IN
    CASE outcome = "stat" -> <<>>
      [] outcome = "open" -> <<>>
      [] outcome = "mmap" -> <<Sys("open", fd), Sys("close", fd)>>
      [] OTHER            -> <<Sys("open", fd), Sys("mmap", BarRegion(id))>>

\* pci_bar_map() of BAR id
pci_bar_map_id(bar, id, open_fds, outcome) ==
    LET m == pci_bar_map(bar, open_fds, outcome)
    IN IF m.err = 0 THEN [m EXCEPT !.bar.region = BarRegion(id)] ELSE m

\* the system calls pci_bar_unmap() makes
pci_bar_unmap_syscalls(bar) ==
    IF bar.region # NULL
    THEN <<Sys("munmap", bar.region), Sys("close", bar.fd)>>
    ELSE <<>>

\* pci_func_open(): the three sysfs files are opened, read and closed one after the
\* other, then every bars[id].fd is set to -1; when a file cannot be opened the bars
\* are left as they were
pci_func_open(f, open_fds, outcome) ==
    LET fd == LowestFree(open_fds, 0)
        file == <<Sys("open", fd), Sys("close", fd)>>
    IN IF outcome = "ok"
       THEN [err |-> 0, func |-> [f EXCEPT !.bars = [id \in DOMAIN f.bars |->
                                                       [f.bars[id] EXCEPT !.fd = -1]]],
             log |-> file \o file \o file]
       ELSE [err |-> -ENOENT, func |-> f, log |-> <<>>]

\* pci_func_close(): pci_bar_unmap() on the bars id, id + 1, ..., PCI_NBARS - 1
RECURSIVE pci_func_close_from(_, _, _, _, _)
pci_func_close_from(id, f, open_fds, mapped, log) ==
    IF id >= PCI_NBARS
    THEN [fds |-> open_fds, func |-> f, log |-> log, mapped |-> mapped]
    ELSE LET u == pci_bar_unmap(f.bars[id], open_fds)
         IN pci_func_close_from(id + 1, [f EXCEPT !.bars[id] = u.bar], u.fds,
                                IF f.bars[id].region # NULL
                                THEN mapped \ {f.bars[id].region} ELSE mapped,
                                log \o pci_bar_unmap_syscalls(f.bars[id]))

pci_func_close(f, open_fds, mapped) == pci_func_close_from(0, f, open_fds, mapped, <<>>)

(* ---------------- hostmem_hugepage.h ---------------- *)

\* what mmap() returns for the file behind descriptor fd, and what the pagemap
\* resolves it to
HugeVirt(fd) == (64 + 8 * fd) * HUGEPGSZ
HugePhys(fd) == (16 + 8 * fd) * HUGEPGSZ

\* a zeroed struct hostmem_hugepage
ZeroHugepage == [fd |-> 0, path |-> <<>>, phys |-> 0, size |-> 0, virt |-> NULL]

\* the path of a memfd, "/proc/<pid>/fd/<fd>", and of the count-th hugetlbfs file
ProcFdPath(fd) == <<"proc_fd", fd>>
HugetlbPath(count) == <<"hugetlbfs", count>>

\* hostmem_hugepage_alloc() with the outcome of its system calls: the file cannot be
\* opened, ftruncate, mmap or mlock fails, the pagemap lookup fails, or all succeed
hostmem_hugepage_alloc(size, hp, st, open_fds, sys, outcome) ==
    LET fd == LowestFree(open_fds, 0)
        tlbfs == st.backend = HOSTMEM_BACKEND_HUGETLBFS
        path == IF tlbfs THEN HugetlbPath(st.count) ELSE ProcFdPath(fd)
        created == IF tlbfs THEN [sys EXCEPT !.files = sys.files \cup {path}] ELSE sys
        opened == [hp EXCEPT !.fd = fd, !.path = path, !.size = size]
        mapped == [opened EXCEPT !.virt = HugeVirt(fd)]
    IN IF size % HUGEPGSZ # 0
       THEN [err |-> -EINVAL, fds |-> open_fds, hugepage |-> hp, state |-> st, sys |-> sys]
       ELSE CASE outcome = "open" ->
                   [err |-> -ENOENT, fds |-> open_fds,
                    hugepage |-> [hp EXCEPT !.fd = -1,
                                            !.path = IF tlbfs THEN path ELSE hp.path,
                                            !.size = size],
                    state |-> st, sys |-> sys]
              [] outcome = "ftruncate" ->
                   [err |-> -ENOMEM, fds |-> open_fds, hugepage |-> opened, state |-> st,
                    sys |-> created]
              [] outcome = "mmap" ->
                   [err |-> -ENOMEM, fds |-> open_fds,
                    hugepage |-> [opened EXCEPT !.virt = MAP_FAILED], state |-> st,
                    sys |-> created]
              [] outcome \in {"mlock", "pagemap"} ->
                   [err |-> -ENOMEM, fds |-> open_fds, hugepage |-> mapped, state |-> st,
                    sys |-> created]
              [] OTHER ->
                   [err |-> 0, fds |-> open_fds \cup {fd},
                    hugepage |-> [mapped EXCEPT !.phys = HugePhys(fd)],
                    state |-> [st EXCEPT !.count = st.count + 1],
                    sys |-> [created EXCEPT !.mapped = created.mapped \cup {HugeVirt(fd)}]]

\* hostmem_hugepage_import() of an existing file of st_size bytes, with the outcome
\* of its system calls
hostmem_hugepage_import(path, st_size, hp, open_fds, sys, outcome) ==
    LET fd == LowestFree(open_fds, 0)
        opened == [hp EXCEPT !.fd = fd, !.path = path]
        sized == [opened EXCEPT !.size = st_size]
        mapped == [sized EXCEPT !.virt = HugeVirt(fd)]
    IN CASE outcome = "open" ->
              [err |-> -ENOENT, fds |-> open_fds,
               hugepage |-> [hp EXCEPT !.fd = -1, !.path = path], sys |-> sys]
         [] outcome = "fstat" ->
              [err |-> -EIO, fds |-> open_fds, hugepage |-> opened, sys |-> sys]
         [] st_size % HUGEPGSZ # 0 ->
              [err |-> -EINVAL, fds |-> open_fds, hugepage |-> sized, sys |-> sys]
         [] outcome = "mmap" ->
              [err |-> -ENOMEM, fds |-> open_fds,
               hugepage |-> [sized EXCEPT !.virt = MAP_FAILED], sys |-> sys]
         [] outcome = "pagemap" ->
              [err |-> -ENOMEM, fds |-> open_fds, hugepage |-> mapped, sys |-> sys]
         [] OTHER ->
              [err |-> 0, fds |-> open_fds \cup {fd},
               hugepage |-> [mapped EXCEPT !.phys = HugePhys(fd)],
               sys |-> [sys EXCEPT !.mapped = sys.mapped \cup {HugeVirt(fd)}]]

\* hostmem_hugepage_free(): munmap() when virt and size are set, unlink() of the path
\* under the hugetlbfs backend, then the descriptor is zeroed; no descriptor is closed
hostmem_hugepage_free(hp, st, open_fds, sys) ==
    [fds |-> open_fds,
     hugepage |-> ZeroHugepage,
     sys |-> [files |-> IF st.backend = HOSTMEM_BACKEND_HUGETLBFS
                        THEN sys.files \ {hp.path} ELSE sys.files,
              mapped |-> IF hp.virt # NULL /\ hp.size # 0
                         THEN sys.mapped \ {hp.virt} ELSE sys.mapped]]

(* ---------------- nvme_qid.h ---------------- *)

\* the bitmap is the set of its set bits: bit q is bit q % 64 of word q \div 64

\* the index of the word of qid_bitmap[] the accessors read and write for qid
nvme_qid_word(qid) == qid \div BITS_PER_WORD

nvme_qid_is_allocated(qid_bitmap, qid) ==
    IF qid >= NVME_QID_MAX THEN -EINVAL
    ELSE IF qid \in qid_bitmap THEN 1 ELSE 0

nvme_qid_free(qid_bitmap, qid) ==
    IF qid >= NVME_QID_MAX
    THEN [bitmap |-> qid_bitmap, ret |-> -EINVAL]
    ELSE [bitmap |-> qid_bitmap \ {qid}, ret |-> 0]

nvme_qid_alloc(qid_bitmap, qid) ==
    IF qid >= NVME_QID_MAX
    THEN [bitmap |-> qid_bitmap, ret |-> -EINVAL]
    ELSE [bitmap |-> qid_bitmap \cup {qid}, ret |-> 0]

\* nvme_qid_bitmap_init(): all bits clear, then bit 0 set for the admin queue
nvme_qid_bitmap_init == nvme_qid_alloc({}, 0).bitmap

\* qid_bitmap[word] == UINT64_MAX
WordIsFull(qid_bitmap, word) ==
    \A bit \in 0..(BITS_PER_WORD - 1) : word * BITS_PER_WORD + bit \in qid_bitmap

\* the scan of nvme_qid_find_free(): the lowest clear bit of the first of the
\* NVME_QID_BITMAP_WORDS words that is not all ones, else -ENOMEM
nvme_qid_find_free(qid_bitmap) ==
    LET words == 0..(NVME_QID_BITMAP_WORDS - 1) IN
    IF \A word \in words : WordIsFull(qid_bitmap, word)
    THEN -ENOMEM
    ELSE LET word == CHOOSE w \in words :
                       /\ ~WordIsFull(qid_bitmap, w)
                       /\ \A v \in 0..(w - 1) : WordIsFull(qid_bitmap, v)
             bit == CHOOSE b \in 0..(BITS_PER_WORD - 1) :
                      /\ word * BITS_PER_WORD + b \notin qid_bitmap
                      /\ \A o \in 0..(b - 1) : word * BITS_PER_WORD + o \in qid_bitmap
         IN word * BITS_PER_WORD + bit

(* ---------------- nvme_controller.h ---------------- *)

\* the memory nvme_qpair_init() acquires: the SQ, the CQ, then the request pool
\* from calloc(), which succeeds or not; what it got before a failure stays
nvme_qpair_init_mem(h, pools, calloc_ok) ==
    LET s == hostmem_dma_malloc(h, QUEUE_NBYTES)
        c == hostmem_dma_malloc(s.heap, QUEUE_NBYTES)
        rp == LowestFree(pools, 1)
    IN IF s.ptr = NULL
       THEN [cq |-> NULL, err |-> -ENOMEM, errno |-> ENOMEM, heap |-> h,
             rpool |-> NULL, rpools |-> pools, sq |-> NULL]
       ELSE IF c.ptr = NULL
       THEN [cq |-> NULL, err |-> -ENOMEM, errno |-> ENOMEM, heap |-> s.heap,
             rpool |-> NULL, rpools |-> pools, sq |-> s.ptr]
       ELSE IF ~calloc_ok
       THEN [cq |-> c.ptr, err |-> -ENOMEM, errno |-> ENOMEM, heap |-> c.heap,
             rpool |-> NULL, rpools |-> pools, sq |-> s.ptr]
       ELSE [cq |-> c.ptr, err |-> 0, errno |-> 0, heap |-> c.heap,
             rpool |-> rp, rpools |-> pools \cup {rp}, sq |-> s.ptr]


\* struct nvme_controller before its init: all zero
ZeroCtrlr ==
    [aq |-> [cq |-> NULL, rpool |-> NULL, sq |-> NULL],
     bar0 |-> [fd |-> 0, region |-> NULL],
     buf |-> NULL, timeout_ms |-> 0]

\* the descriptors every process starts with
StdFds == {0, 1, 2}

\* what a call has to give back: open fds, heap blocks, qid bits, request pools
Resources == [fds |-> fds, freelist |-> heap.freelist, qids |-> qids, rpools |-> rpools]

\* no PRP preparation yet, and a pool without PRP pages
ZeroPrpCall == [cid |-> 0, dbuf |-> 0, dbuf_nbytes |-> 0, prp1 |-> 0, prp2 |-> 0]
NoPrps == [base |-> NULL, list |-> <<>>]

\* the queue pair after nvme_qpair_init(), its request pool after
\* nvme_request_pool_init(), an idle host and an idle device
InitQp ==
    /\ \E d \in 1..MaxDepth :
         /\ qp = nvme_qpair_init(d)
         /\ sq = [s \in 0..(d - 1) |-> ZeroCmd]
         /\ cq = [s \in 0..(d - 1) |-> ZeroCpl]
         /\ dev = [cqfree |-> d, cqtail |-> 0, pending |-> {}, phase |-> 1, sqhd |-> 0]
    /\ bar0 = [cqdb |-> 0, sqdb |-> 0]
    /\ pc = "idle"
    /\ caller = "none"
    /\ i = 0
    /\ timeout_us = 0
    /\ ucmd = ZeroCmd
    /\ req = NULL
    /\ cpl = ZeroCpl
    /\ ret = 0
    /\ last = "init"
    /\ tick = 0
    /\ mmio_log = <<>>
    /\ nsleep = 0
    /\ entry_top = NVME_REQUEST_POOL_LEN
    /\ nenq = 0
    /\ announced = 0
    /\ posted = <<>>
    /\ nreap = 0
    /\ busy = {}
    /\ errno = 0

\* the request pool right after nvme_request_pool_init(): nothing handed out
InitPool ==
    /\ rpool = nvme_request_pool_init
    /\ issued = {}

\* the request pool after nvme_request_pool_init() and k calls of
\* nvme_request_alloc() without a free: cids 0..k-1 are out, no stack cell was written
InitPoolAfterAllocs(k) ==
    /\ rpool = [nvme_request_pool_init EXCEPT !.top = NVME_REQUEST_POOL_LEN - k]
    /\ issued = 0..(k - 1)

\* no helper was called; a zeroed struct pci_func; nothing mapped, no system call made
NoCall == [fn |-> "none"]
ZeroFunc == [bars |-> [id \in 0..(PCI_NBARS - 1) |-> [fd |-> 0, region |-> NULL]]]
NoSys == [id |-> 0, log |-> <<>>, mapped |-> {}]

\* g_hostmem_state after hostmem_state_init() with backend b; no hugepage file, no mapping
HostmemState(b) == [backend |-> b, count |-> 0]
NoHugeSys == [files |-> {}, mapped |-> {}]

\* queue memory nobody looks at from the other side of the bus
NoDma == [cpl_dw0 |-> 0, dw0 |-> <<>>, early |-> <<>>, sqdev |-> <<>>]

\* the hugepage allocator initialised for memfd and not used, the bus not observed
InitRest ==
    /\ hugepage = ZeroHugepage
    /\ g_hostmem_state = HostmemState(HOSTMEM_BACKEND_MEMFD)
    /\ hugesys = NoHugeSys
    /\ dma = NoDma

InitAux == fcall = NoCall /\ func = ZeroFunc /\ pcisys = NoSys /\ InitRest

\* the heap h after hostmem_heap_init() and what the application allocated since,
\* a controller structure not yet opened, the controller registers r
InitCore(h, r) ==
    /\ heap = h
    /\ held = {h.freelist[k].addr + PAGESIZE :
                 k \in {j \in DOMAIN h.freelist : h.freelist[j].free = 0}}
    /\ entry = [fds |-> StdFds, freelist |-> h.freelist, qids |-> {}, rpools |-> {}]
    /\ ctrlr = ZeroCtrlr
    /\ qids = {}
    /\ ioq = <<>>
    /\ cregs = r
    /\ fds = StdFds
    /\ rpools = {}
    /\ elapsed = 0
    /\ timeout_ms = 0
    /\ events = <<>>
    /\ stage = "none"
    /\ prpcall = ZeroPrpCall
    /\ prpmem = NoPrps

\* the same, with no helper called and a struct pci_func not yet opened
InitSys(h, r) == InitCore(h, r) /\ InitAux

\* controller registers of a device at rest: disabled and not ready
RegsAtRest == [acq |-> 0, aqa |-> 0, asq |-> 0, cc |-> 0, rdy |-> 0, to |-> 1]

Init == InitQp /\ InitPool /\ InitSys(hostmem_heap_init(HUGEPGSZ), RegsAtRest)

(* ---------------- host operations ---------------- *)

HostStep(name) ==
    /\ last' = name
    /\ tick' = 1 - tick

\* a call of nvme_request_alloc() by the caller, who keeps the request
RequestAllocCall ==
    /\ pc = "idle"
    /\ LET a == nvme_request_alloc(rpool) IN
         \/ /\ rpool.top > 0
            /\ rpool' = a.pool
            /\ ret' = a.req
            /\ issued' = issued \cup {ReqCid(a.req)}
            /\ pc' = pc
            /\ UNCHANGED errno
         \/ /\ rpool.top = 0      \* NDEBUG build: NULL, errno = ENOMEM
            /\ rpool' = a.pool
            /\ ret' = a.req
            /\ issued' = issued
            /\ pc' = pc
            /\ errno' = a.errno
         \/ /\ rpool.top = 0      \* assert(pool->top > 0) fails
            /\ pc' = "abort"
            /\ UNCHANGED <<rpool, ret, issued, errno>>
    /\ HostStep("request_alloc")
    /\ UNCHANGED sysvars
    /\ mmio_log' = <<>>
    /\ UNCHANGED <<qp, sq, cq, bar0, caller, i, timeout_us, ucmd, req, cpl, nsleep,
                   entry_top, dev, nenq, announced, posted, nreap, busy>>

\* the same call while the caller holds fewer than MaxAllocated requests
RequestAlloc ==
    /\ Cardinality(issued) < MaxAllocated
    /\ RequestAllocCall

\* a call of nvme_request_free() on a cid the caller holds and no queue references
RequestFree(c) ==
    /\ pc = "idle"
    /\ c \in issued \ busy
    /\ rpool.top < NVME_REQUEST_POOL_LEN
    /\ rpool' = nvme_request_free(rpool, c)
    /\ issued' = issued \ {c}
    /\ HostStep("request_free")
    /\ UNCHANGED <<errno, sysvars>>
    /\ mmio_log' = <<>>
    /\ UNCHANGED <<qp, sq, cq, bar0, pc, caller, i, timeout_us, ucmd, req, cpl, ret, nsleep,
                   entry_top, dev, nenq, announced, posted, nreap, busy>>

\* a call of nvme_request_free() on any cid, held by the caller or not; with the
\* stack full the assertion ends the process, and in a build with NDEBUG the store
\* to stack[NVME_REQUEST_POOL_LEN] lands on the low half of pool->top, the field
\* behind stack[] in struct nvme_request_pool, which is then incremented
RequestFreeCall(c) ==
    /\ pc = "idle"
    /\ \/ /\ rpool.top < NVME_REQUEST_POOL_LEN
          /\ rpool' = nvme_request_free(rpool, c)
          /\ issued' = issued \ {c}
          /\ pc' = pc
       \/ /\ rpool.top = NVME_REQUEST_POOL_LEN     \* assert(pool->top < LEN) fails
          /\ pc' = "abort"
          /\ UNCHANGED <<rpool, issued>>
       \/ /\ rpool.top = NVME_REQUEST_POOL_LEN     \* NDEBUG build
          /\ rpool' = [rpool EXCEPT !.top = c + 1]
          /\ issued' = issued \ {c}
          /\ pc' = pc
    /\ HostStep("request_free")
    /\ UNCHANGED <<errno, sysvars>>
    /\ mmio_log' = <<>>
    /\ UNCHANGED <<qp, sq, cq, bar0, caller, i, timeout_us, ucmd, req, cpl, ret, nsleep,
                   entry_top, dev, nenq, announced, posted, nreap, busy>>

\* the helpers and the PCI function, left alone by the queue, heap and controller calls
auxvars == <<fcall, func, pcisys, hugevars, dma>>

\* a call of the setter of CC field f on the value the previous call returned
CcSet(f, val) ==
    /\ pc = "idle"
    /\ fcall.fn \in {"init", "cc_set"}
    /\ fcall' = [cc |-> fcall.out, field |-> f, fn |-> "cc_set",
                 out |-> nvme_reg_cc_set(f, fcall.out, val), val |-> val]
    /\ HostStep("cc_set")
    /\ mmio_log' = <<>>
    /\ UNCHANGED <<qp, sq, cq, rpool, bar0, pc, caller, i, timeout_us, ucmd, req, cpl, ret,
                   nsleep, entry_top, dev, nenq, announced, posted, nreap, issued, busy, errno>>
    /\ UNCHANGED <<heap, held, entry, ctrlr, qids, ioq, cregs, fds, rpools, elapsed,
                   timeout_ms, events, stage, prpcall, prpmem, func, pcisys, hugevars, dma>>

\* a call of pci_addr_from_text() on the struct pci_addr of the previous call
AddrFromText(text) ==
    /\ pc = "idle"
    /\ fcall.fn \in {"addr_init", "pci_addr_from_text", "pci_addr_to_text"}
    /\ LET a == pci_addr_from_text(text, fcall.value)
       IN fcall' = [err |-> a.err, fn |-> "pci_addr_from_text", out |-> <<>>, text |-> text,
                    value |-> a.value]
    /\ HostStep("pci_addr_from_text")
    /\ mmio_log' = <<>>
    /\ UNCHANGED <<qp, sq, cq, rpool, bar0, pc, caller, i, timeout_us, ucmd, req, cpl, ret,
                   nsleep, entry_top, dev, nenq, announced, posted, nreap, issued, busy, errno>>
    /\ UNCHANGED <<heap, held, entry, ctrlr, qids, ioq, cregs, fds, rpools, elapsed,
                   timeout_ms, events, stage, prpcall, prpmem, func, pcisys, hugevars, dma>>

\* a call of pci_addr_to_text() on the address a successful pci_addr_from_text() filled
AddrToText ==
    /\ pc = "idle"
    /\ fcall.fn = "pci_addr_from_text"
    /\ fcall.err = 0
    /\ fcall' = [fcall EXCEPT !.fn = "pci_addr_to_text", !.out = pci_addr_to_text(fcall.value)]
    /\ HostStep("pci_addr_to_text")
    /\ mmio_log' = <<>>
    /\ UNCHANGED <<qp, sq, cq, rpool, bar0, pc, caller, i, timeout_us, ucmd, req, cpl, ret,
                   nsleep, entry_top, dev, nenq, announced, posted, nreap, issued, busy, errno>>
    /\ UNCHANGED <<heap, held, entry, ctrlr, qids, ioq, cregs, fds, rpools, elapsed,
                   timeout_ms, events, stage, prpcall, prpmem, func, pcisys, hugevars, dma>>

\* the queue, heap, controller, PRP and helper state, left alone by the pci.h calls
PciFrame ==
    /\ mmio_log' = <<>>
    /\ UNCHANGED <<qp, sq, cq, rpool, bar0, pc, caller, i, timeout_us, ucmd, req, cpl,
                   nsleep, entry_top, dev, nenq, announced, posted, nreap, issued, busy, errno>>
    /\ UNCHANGED <<heap, held, entry, ctrlr, qids, ioq, cregs, rpools, elapsed,
                   timeout_ms, events, stage, prpcall, prpmem, fcall, hugevars, dma>>

\* a call of pci_func_open() on a function none of whose BARs has a region
PciFuncOpen(outcome) ==
    /\ pc = "idle"
    /\ \A id \in DOMAIN func.bars : func.bars[id].region = NULL
    /\ LET o == pci_func_open(func, fds, outcome)
       IN /\ func' = o.func
          /\ ret' = o.err
          /\ pcisys' = [id |-> 0, log |-> o.log, mapped |-> pcisys.mapped]
    /\ UNCHANGED fds
    /\ HostStep("pci_func_open")
    /\ PciFrame

\* a call of pci_bar_map() on a BAR of the opened function that is not mapped
PciBarMap(id, outcome) ==
    /\ pc = "idle"
    /\ func.bars[id] = [fd |-> -1, region |-> NULL]
    /\ LET m == pci_bar_map_id(func.bars[id], id, fds, outcome)
       IN /\ func' = [func EXCEPT !.bars[id] = m.bar]
          /\ fds' = m.fds
          /\ ret' = m.err
          /\ pcisys' = [id |-> id, log |-> pci_bar_map_syscalls(id, fds, outcome),
                        mapped |-> IF m.err = 0 THEN pcisys.mapped \cup {m.bar.region}
                                   ELSE pcisys.mapped]
    /\ HostStep("pci_bar_map")
    /\ PciFrame

\* a call of pci_bar_unmap() on a BAR of the function
PciBarUnmap(id) ==
    /\ pc = "idle"
    /\ LET u == pci_bar_unmap(func.bars[id], fds)
       IN /\ func' = [func EXCEPT !.bars[id] = u.bar]
          /\ fds' = u.fds
          /\ pcisys' = [id |-> id, log |-> pci_bar_unmap_syscalls(func.bars[id]),
                        mapped |-> IF func.bars[id].region # NULL
                                   THEN pcisys.mapped \ {func.bars[id].region}
                                   ELSE pcisys.mapped]
    /\ ret' = 0
    /\ HostStep("pci_bar_unmap")
    /\ PciFrame

\* a call of pci_func_close()
PciFuncClose ==
    /\ pc = "idle"
    /\ LET c == pci_func_close(func, fds, pcisys.mapped)
       IN /\ func' = c.func
          /\ fds' = c.fds
          /\ pcisys' = [id |-> 0, log |-> c.log, mapped |-> c.mapped]
    /\ UNCHANGED ret
    /\ HostStep("pci_func_close")
    /\ PciFrame

\* the queue, heap, controller, PRP, helper and PCI state, left alone by the
\* hostmem_hugepage.h calls
HugeFrame ==
    /\ mmio_log' = <<>>
    /\ UNCHANGED <<qp, sq, cq, rpool, bar0, pc, caller, i, timeout_us, ucmd, req, cpl,
                   nsleep, entry_top, dev, nenq, announced, posted, nreap, issued, busy, errno>>
    /\ UNCHANGED <<heap, held, entry, ctrlr, qids, ioq, cregs, rpools, elapsed,
                   timeout_ms, events, stage, prpcall, prpmem, fcall, func, pcisys, dma>>

\* a call of hostmem_hugepage_alloc() on a descriptor that holds no mapping, while
\* the process has fewer than MaxHugeOpen descriptors open besides the standard ones
HugepageAlloc(size, outcome) ==
    /\ pc = "idle"
    /\ hugepage.virt \notin hugesys.mapped
    /\ Cardinality(fds) < Cardinality(StdFds) + MaxHugeOpen
    /\ LET a == hostmem_hugepage_alloc(size, hugepage, g_hostmem_state, fds, hugesys, outcome)
       IN /\ hugepage' = a.hugepage
          /\ g_hostmem_state' = a.state
          /\ fds' = a.fds
          /\ hugesys' = a.sys
          /\ ret' = a.err
    /\ HostStep("hugepage_alloc")
    /\ HugeFrame

\* a call of hostmem_hugepage_import() on a descriptor that holds no mapping; the
\* path names a file that exists, of st_size bytes
HugepageImport(path, st_size, outcome) ==
    /\ pc = "idle"
    /\ hugepage.virt \notin hugesys.mapped
    /\ Cardinality(fds) < Cardinality(StdFds) + MaxHugeOpen
    /\ path[1] = "hugetlbfs" => (path \in hugesys.files \/ outcome = "open")
    /\ LET m == hostmem_hugepage_import(path, st_size, hugepage, fds, hugesys, outcome)
       IN /\ hugepage' = m.hugepage
          /\ fds' = m.fds
          /\ hugesys' = m.sys
          /\ ret' = m.err
    /\ UNCHANGED g_hostmem_state
    /\ HostStep("hugepage_import")
    /\ HugeFrame

\* a call of hostmem_hugepage_free() on the descriptor
HugepageFree ==
    /\ pc = "idle"
    /\ LET f == hostmem_hugepage_free(hugepage, g_hostmem_state, fds, hugesys)
       IN /\ hugepage' = f.hugepage
          /\ fds' = f.fds
          /\ hugesys' = f.sys
    /\ UNCHANGED <<g_hostmem_state, ret>>
    /\ HostStep("hugepage_free")
    /\ HugeFrame

\* the page entries of a PRP list: PAGESIZE bytes of 8-byte entries
PrpEntries == PAGESIZE \div 8

\* nvme_request_pool_init_prps(): one page per request out of one heap allocation;
\* prps is NULL when the allocation fails
nvme_request_pool_init_prps(h) ==
    LET a == hostmem_dma_malloc(h, NVME_REQUEST_POOL_LEN * PAGESIZE)
    IN [heap |-> a.heap, prps |-> a.ptr]

\* pool->reqs[c] as nvme_request_pool_init_prps() left it: the request's page and the
\* physical address cached for it
nvme_request_get(h, prps, c) ==
    [cid |-> c, prp |-> prps + c * PAGESIZE,
     prp_addr |-> hostmem_heap_block_vtp(h, prps + c * PAGESIZE)]

\* nvme_request_prep_command_prps_contig() whose list starts with the buffer's own
\* page
nvme_request_prep_command_prps_contig_from_first_page(request, h, dbuf, dbuf_nbytes, cmd, mem) ==
    LET npages == dbuf_nbytes \div Pow2(pagesize_shift)
        prp1 == hostmem_heap_block_vtp(h, dbuf)
        first == (request.prp - mem.base) \div 8
        written == [k \in {first + (j - 1) : j \in 1..(npages - 1)} |->
                      prp1 + (k - first) * Pow2(pagesize_shift)]
    IN IF npages = 1
       THEN [cmd |-> [cmd EXCEPT !.prp1 = prp1], mem |-> mem]
       ELSE IF npages = 2
       THEN [cmd |-> [cmd EXCEPT !.prp1 = prp1,
                                 !.prp2 = hostmem_heap_block_vtp(h, dbuf + PAGESIZE)],
             mem |-> mem]
       ELSE [cmd |-> [cmd EXCEPT !.prp1 = prp1, !.prp2 = request.prp_addr],
             mem |-> [mem EXCEPT !.list = written @@ mem.list]]

\* nvme_request_prep_command_prps_contig() past its assert: mem.list maps the index
\* of an 8-byte entry, counted from pool->prps, to the value written there;
\* prp_list[j - 1] of the request is entry first + (j - 1)
nvme_request_prep_command_prps_contig(request, h, dbuf, dbuf_nbytes, cmd, mem) ==
    LET npages == dbuf_nbytes \div Pow2(pagesize_shift)
        prp1 == hostmem_heap_block_vtp(h, dbuf)
        first == (request.prp - mem.base) \div 8
        written == [k \in {first + (j - 1) : j \in 1..(npages - 1)} |->
                      prp1 + (k - first + 1) * Pow2(pagesize_shift)]
    IN IF npages = 1
       THEN [cmd |-> [cmd EXCEPT !.prp1 = prp1], mem |-> mem]
       ELSE IF npages = 2
       THEN [cmd |-> [cmd EXCEPT !.prp1 = prp1,
                                 !.prp2 = hostmem_heap_block_vtp(h, dbuf + PAGESIZE)],
             mem |-> mem]
       ELSE [cmd |-> [cmd EXCEPT !.prp1 = prp1, !.prp2 = request.prp_addr],
             mem |-> [mem EXCEPT !.list = written @@ mem.list]]

\* a call of nvme_request_prep_command_prps_contig() on a request the caller holds
PrepPrps(c, dbuf, dbuf_nbytes) ==
    /\ pc = "idle"
    /\ c \in issued
    /\ prpmem.base # NULL
    /\ LET request == nvme_request_get(heap, prpmem.base, c)
           npages == dbuf_nbytes \div Pow2(pagesize_shift)
           args == [prpcall EXCEPT !.cid = c, !.dbuf = dbuf, !.dbuf_nbytes = dbuf_nbytes]
           r == nvme_request_prep_command_prps_contig(request, heap, dbuf, dbuf_nbytes,
                                                      args, prpmem)
       IN \/ /\ npages <= 1 + PRP_LIST_MAX
             /\ prpcall' = r.cmd
             /\ prpmem' = r.mem
             /\ pc' = pc
          \/ /\ npages > 1 + PRP_LIST_MAX      \* NDEBUG build: the loop runs on
             /\ prpcall' = r.cmd
             /\ prpmem' = r.mem
             /\ pc' = pc
          \/ /\ npages > 1 + PRP_LIST_MAX      \* assert(npages <= 1 + 512) fails
             /\ prpcall' = args
             /\ pc' = "abort"
             /\ UNCHANGED prpmem
    /\ HostStep("prep_prps")
    /\ mmio_log' = <<>>
    /\ UNCHANGED <<qp, sq, cq, rpool, bar0, caller, i, timeout_us, ucmd, req, cpl, ret, nsleep,
                   entry_top, dev, nenq, announced, posted, nreap, issued, busy, errno>>
    /\ UNCHANGED <<heap, held, entry, ctrlr, qids, ioq, cregs, fds, rpools, elapsed,
                   timeout_ms, events, stage, auxvars>>

\* a call of nvme_qpair_enqueue()
Enqueue(c) ==
    /\ pc = "idle"
    /\ nenq < MaxEnq
    /\ LET e == nvme_qpair_enqueue(qp, sq, c) IN
         /\ qp' = e.qp
         /\ sq' = e.sq
         /\ ret' = e.ret
         /\ mmio_log' = e.mmio
         /\ bar0' = MmioApply(bar0, e.mmio)
         /\ announced' = AnnouncedAfter(e.mmio, nenq + 1)
    /\ nenq' = nenq + 1
    /\ busy' = busy \cup {c.cid}
    /\ ucmd' = c
    /\ HostStep("enqueue")
    /\ UNCHANGED <<errno, sysvars>>
    /\ UNCHANGED <<cq, rpool, pc, caller, i, timeout_us, req, cpl, nsleep, entry_top,
                   dev, posted, nreap, issued>>

\* a call of nvme_qpair_sqdb_update()
SqdbUpdate ==
    /\ pc = "idle"
    /\ LET u == nvme_qpair_sqdb_update(qp) IN
         /\ qp' = u.qp
         /\ mmio_log' = u.mmio
         /\ bar0' = MmioApply(bar0, u.mmio)
         /\ announced' = AnnouncedAfter(u.mmio, nenq)
    /\ HostStep("sqdb_update")
    /\ UNCHANGED <<errno, sysvars>>
    /\ UNCHANGED <<sq, cq, rpool, pc, caller, i, timeout_us, ucmd, req, cpl, ret, nsleep,
                   entry_top, dev, nenq, posted, nreap, issued, busy>>

\* a call of nvme_qpair_reap_cpl(): enters the polling loop
ReapCpl(t) ==
    /\ pc = "idle"
    /\ nreap < MaxReap
    /\ pc' = "reap"
    /\ caller' = "reap_cpl"
    /\ i' = 0
    /\ timeout_us' = t
    /\ nsleep' = 0
    /\ mmio_log' = <<>>
    /\ HostStep("reap_cpl")
    /\ UNCHANGED <<errno, sysvars>>
    /\ UNCHANGED <<qp, sq, cq, rpool, bar0, ucmd, req, cpl, ret, entry_top, dev, nenq,
                   announced, posted, nreap, issued, busy>>

\* a call of nvme_qpair_submit_sync(): alloc, cid, enqueue, doorbell, then the
\* polling loop of nvme_qpair_reap_cpl()
SubmitSync(opc, t) ==
    /\ pc = "idle"
    /\ nenq < MaxSubmit
    /\ nreap < MaxReap
    /\ LET a == nvme_request_alloc(rpool) IN
         IF a.req = NULL
         THEN /\ ret' = -a.errno
              /\ errno' = a.errno
              /\ mmio_log' = <<>>
              /\ UNCHANGED <<qp, sq, rpool, bar0, pc, caller, i, timeout_us, ucmd, req, nsleep,
                             entry_top, nenq, announced, issued, busy>>
         ELSE \E cid \in ReqCidRead(a.req) :
              LET c   == [cid |-> cid, opc |-> opc]
                  e   == nvme_qpair_enqueue(qp, sq, c)
                  u   == nvme_qpair_sqdb_update(e.qp)
              IN /\ rpool' = a.pool
                 /\ req' = cid
                 /\ ucmd' = c
                 /\ sq' = e.sq
                 /\ qp' = u.qp
                 /\ mmio_log' = u.mmio
                 /\ bar0' = MmioApply(bar0, u.mmio)
                 /\ nenq' = nenq + 1
                 /\ announced' = AnnouncedAfter(u.mmio, nenq + 1)
                 /\ issued' = issued \cup {cid}
                 /\ busy' = busy \cup {cid}
                 /\ entry_top' = rpool.top
                 /\ pc' = "reap"
                 /\ caller' = "submit_sync"
                 /\ i' = 0
                 /\ timeout_us' = t
                 /\ nsleep' = 0
                 /\ UNCHANGED <<ret, errno>>
    /\ HostStep("submit_sync")
    /\ UNCHANGED sysvars
    /\ UNCHANGED <<cq, cpl, dev, posted, nreap>>

\* the return of the polling loop with err to its caller; c is the completion buffer
ReapReturn(err, c) ==
    /\ pc' = "idle"
    /\ i' = 0
    /\ timeout_us' = 0
    /\ IF caller = "submit_sync"
       THEN LET t == nvme_qpair_submit_sync_tail(rpool, err, c) IN
              /\ rpool' = t.pool
              /\ ret' = t.ret
              /\ issued' = IF err = 0 THEN issued \ {c.cid} ELSE issued
       ELSE /\ ret' = err
            /\ UNCHANGED <<rpool, issued>>

\* one step of the loop of nvme_qpair_reap_cpl(): a hit, a miss followed by
\* usleep(), or the exit with -EAGAIN
PollBody ==
    /\ pc = "reap"
    /\ IF i < timeout_us
       THEN LET r == nvme_qpair_reap_cpl_poll(qp, cq) IN
              IF r.hit
              THEN /\ cpl' = r.cpl
                   /\ qp' = r.qp
                   /\ mmio_log' = r.mmio
                   /\ bar0' = MmioApply(bar0, r.mmio)
                   /\ dev' = DevAfterMmio(dev, r.mmio)
                   /\ nreap' = nreap + 1
                   /\ busy' = busy \ {r.cpl.cid}
                   /\ ReapReturn(0, r.cpl)
                   /\ UNCHANGED nsleep
              ELSE /\ i' = i + 1
                   /\ nsleep' = nsleep + 1
                   /\ mmio_log' = <<>>
                   /\ UNCHANGED <<qp, cpl, bar0, dev, nreap, busy, pc, rpool, ret,
                                  issued, timeout_us>>
       ELSE /\ ReapReturn(-EAGAIN, cpl)
            /\ mmio_log' = <<>>
            /\ UNCHANGED <<qp, cpl, bar0, dev, nreap, busy, nsleep>>
    /\ tick' = 1 - tick
    /\ UNCHANGED <<sq, cq, caller, ucmd, req, last, entry_top, nenq, announced, posted>>

\* the same on a host whose loads and stores reach memory in program order
Poll ==
    /\ PollBody
    /\ UNCHANGED <<errno, sysvars>>

\* the same on a weakly ordered host: a hit copies dword 0 of the entry too
PollDma ==
    /\ PollBody
    /\ IF i < timeout_us /\ nvme_qpair_reap_cpl_poll(qp, cq).hit
       THEN \E v \in nvme_qpair_reap_cpl_dw0(dma.dw0[qp.head], dma.early[qp.head]) :
              dma' = [dma EXCEPT !.cpl_dw0 = v]
       ELSE UNCHANGED dma
    /\ UNCHANGED <<errno, sysvars0>>

\* a call of nvme_qpair_sqdb_update() on a weakly ordered host
SqdbUpdateDma ==
    /\ pc = "idle"
    /\ LET u == nvme_qpair_sqdb_update(qp) IN
         /\ qp' = u.qp
         /\ mmio_log' = u.mmio
         /\ bar0' = MmioApply(bar0, u.mmio)
         /\ announced' = AnnouncedAfter(u.mmio, nenq)
    /\ dma' = [dma EXCEPT !.sqdev = nvme_qpair_sqdb_update_sqdev(qp, sq, dma.sqdev)]
    /\ HostStep("sqdb_update")
    /\ UNCHANGED <<errno, sysvars0>>
    /\ UNCHANGED <<sq, cq, rpool, pc, caller, i, timeout_us, ucmd, req, cpl, ret, nsleep,
                   entry_top, dev, nenq, posted, nreap, issued, busy>>

\* the host's store buffer drains: the store to SQ slot s reaches memory
SqeVisible(s) ==
    /\ dma.sqdev[s] # sq[s]
    /\ dma' = [dma EXCEPT !.sqdev[s] = sq[s]]
    /\ UNCHANGED <<qp, sq, cq, rpool, bar0, dev, nenq, announced, posted, nreap, issued, busy>>
    /\ UNCHANGED hostvars
    /\ UNCHANGED <<errno, sysvars0>>

(* ---------------- heap calls ---------------- *)

\* a call of hostmem_heap_block_alloc(heap, n); the caller keeps the pointer
HeapAlloc(n) ==
    /\ pc = "idle"
    /\ Cardinality(held) < MaxHeld
    /\ LET a == hostmem_heap_block_alloc(heap, n) IN
         /\ heap' = a.heap
         /\ ret' = a.ptr
         /\ errno' = IF a.ptr = NULL THEN a.errno ELSE errno
         /\ held' = IF a.ptr = NULL THEN held ELSE held \cup {a.ptr}
    /\ entry' = Resources
    /\ HostStep("heap_alloc")
    /\ mmio_log' = <<>>
    /\ UNCHANGED <<qpvars, loopvars, ctlvars>>

\* a call of hostmem_heap_block_alloc_aligned(heap, n, alignment) by the application,
\* which keeps the pointer; the assertion admits alignments larger than the header
HeapAllocAligned(n, alignment) ==
    /\ pc = "idle"
    /\ Cardinality(held) < MaxHeld
    /\ SIZEOF_BLOCK < alignment
    /\ LET a == hostmem_heap_block_alloc_aligned(heap, n, alignment) IN
         /\ heap' = a.heap
         /\ ret' = a.ptr
         /\ errno' = IF a.ptr = NULL THEN a.errno ELSE errno
         /\ held' = IF a.ptr = NULL THEN held ELSE held \cup {a.ptr}
    /\ entry' = Resources
    /\ HostStep("heap_alloc_aligned")
    /\ mmio_log' = <<>>
    /\ UNCHANGED <<qpvars, loopvars, ctlvars>>

\* a call of hostmem_heap_block_free(heap, p) on NULL or on a pointer the caller holds
HeapFree(p) ==
    /\ pc = "idle"
    /\ p \in held \cup {NULL}
    /\ heap' = hostmem_heap_block_free(heap, p)
    /\ held' = held \ {p}
    /\ HostStep("heap_free")
    /\ mmio_log' = <<>>
    /\ UNCHANGED <<qpvars, loopvars, ctlvars, ret, errno, entry>>

(* ---------------- controller calls ---------------- *)

\* the variables no controller call touches
ctlframe == <<qpvars, i, timeout_us, ucmd, req, cpl, nsleep, entry_top, held, ioq>>

\* a call of nvme_mmio_csts_wait_until_ready(): enters its polling loop
WaitUntilReady(t) ==
    /\ pc = "idle"
    /\ stage = "none"
    /\ pc' = "wait"
    /\ caller' = "wait_until_ready"
    /\ elapsed' = 0
    /\ timeout_ms' = t
    /\ HostStep("wait_until_ready")
    /\ mmio_log' = <<>>
    /\ UNCHANGED <<ctlframe, ret, errno, heap, entry, ctrlr, qids, cregs, fds, rpools,
                   events, stage>>

\* a call of nvme_mmio_csts_wait_until_not_ready(): enters its polling loop
WaitUntilNotReady(t) ==
    /\ pc = "idle"
    /\ stage = "none"
    /\ pc' = "wait"
    /\ caller' = "wait_until_not_ready"
    /\ elapsed' = 0
    /\ timeout_ms' = t
    /\ HostStep("wait_until_not_ready")
    /\ mmio_log' = <<>>
    /\ UNCHANGED <<ctlframe, ret, errno, heap, entry, ctrlr, qids, cregs, fds, rpools,
                   events, stage>>

\* the value of CSTS.RDY the running wait loop waits for
Awaited == IF caller = "wait_until_ready" THEN 1 ELSE 0

\* nvme_controller_open() up to its first wait: scratch buffer, request pool, qid
\* bitmap, pci_func_open(), pci_bar_map(), CAP.TO, nvme_mmio_cc_disable()
ControllerOpen(pci_err, map_outcome) ==
    /\ pc = "idle"
    /\ stage = "none"
    /\ last = "init"
    /\ entry' = Resources
    /\ events' = IF pci_err = 0 /\ map_outcome = "ok"
                 THEN nvme_mmio_cc_disable(cregs).ev ELSE <<>>
    /\ LET b  == hostmem_dma_malloc(heap, BUF_NBYTES)
           m  == pci_bar_map([fd |-> -1, region |-> NULL], fds, map_outcome)
           to == cregs.to * CAP_TO_MS
       IN IF b.ptr = NULL
          THEN /\ ret' = -b.errno
               /\ errno' = b.errno
               /\ ctrlr' = ZeroCtrlr
               /\ UNCHANGED <<heap, qids, fds, cregs, pc, caller, elapsed, timeout_ms, stage>>
          ELSE /\ heap' = b.heap
               /\ qids' = nvme_qid_bitmap_init
               /\ UNCHANGED errno
               /\ IF pci_err # 0
                  THEN /\ ret' = -pci_err
                       /\ ctrlr' = [ZeroCtrlr EXCEPT !.buf = b.ptr]
                       /\ UNCHANGED <<fds, cregs, pc, caller, elapsed, timeout_ms, stage>>
                  ELSE IF m.err # 0
                  THEN /\ ret' = -m.err
                       /\ ctrlr' = [ZeroCtrlr EXCEPT !.buf = b.ptr, !.bar0 = m.bar]
                       /\ fds' = m.fds
                       /\ UNCHANGED <<cregs, pc, caller, elapsed, timeout_ms, stage>>
                  ELSE /\ ctrlr' = [ZeroCtrlr EXCEPT !.buf = b.ptr, !.bar0 = m.bar,
                                                     !.timeout_ms = to]
                       /\ fds' = m.fds
                       /\ cregs' = nvme_mmio_cc_disable(cregs).regs
                       /\ pc' = "wait"
                       /\ caller' = "wait_until_not_ready"
                       /\ elapsed' = 0
                       /\ timeout_ms' = to
                       /\ stage' = "open_not_ready"
                       /\ UNCHANGED ret
    /\ HostStep("controller_open")
    /\ mmio_log' = <<>>
    /\ UNCHANGED <<ctlframe, rpools>>

\* nvme_controller_open() after nvme_mmio_csts_wait_until_not_ready() returned err:
\* nvme_qpair_init() of the admin queue pair, nvme_mmio_aq_setup(), the CC write
\* with EN = 1, then the wait for ready
OpenAfterNotReady(err, calloc_ok) ==
    IF err # 0
    THEN /\ ret' = -err
         /\ pc' = "idle"
         /\ stage' = "none"
         /\ elapsed' = 0
         /\ timeout_ms' = 0
         /\ UNCHANGED <<errno, heap, ctrlr, cregs, rpools, events, caller>>
    ELSE LET m   == nvme_qpair_init_mem(heap, rpools, calloc_ok)
             aq  == nvme_mmio_aq_setup(cregs, hostmem_dma_v2p(m.sq), hostmem_dma_v2p(m.cq),
                                       AQ_DEPTH)
             ccw == nvme_mmio_cc_write(aq.regs, OpenCc)
             rd  == <<Ev("read", "csts", cregs.rdy)>>
         IN /\ heap' = m.heap
            /\ rpools' = m.rpools
            /\ ctrlr' = [ctrlr EXCEPT !.aq = [cq |-> m.cq, rpool |-> m.rpool, sq |-> m.sq]]
            /\ elapsed' = 0
            /\ IF m.err # 0
               THEN /\ ret' = -m.err
                    /\ errno' = m.errno
                    /\ pc' = "idle"
                    /\ stage' = "none"
                    /\ timeout_ms' = 0
                    /\ events' = events \o rd
                    /\ UNCHANGED <<cregs, caller>>
               ELSE /\ cregs' = ccw.regs
                    /\ events' = events \o rd \o aq.ev \o ccw.ev
                    /\ pc' = "wait"
                    /\ caller' = "wait_until_ready"
                    /\ timeout_ms' = ctrlr.timeout_ms
                    /\ stage' = "open_ready"
                    /\ UNCHANGED <<ret, errno>>

\* nvme_controller_open() after nvme_mmio_csts_wait_until_ready() returned err
OpenAfterReady(err) ==
    /\ ret' = IF err # 0 THEN -err ELSE 0
    /\ events' = IF err = 0 THEN Append(events, Ev("read", "csts", cregs.rdy)) ELSE events
    /\ pc' = "idle"
    /\ stage' = "none"
    /\ elapsed' = 0
    /\ timeout_ms' = 0
    /\ UNCHANGED <<errno, heap, ctrlr, cregs, rpools, caller>>

\* the return of a wait loop with err to its caller
WaitReturn(err, calloc_ok) ==
    CASE stage = "open_not_ready" -> OpenAfterNotReady(err, calloc_ok)
      [] stage = "open_ready"     -> OpenAfterReady(err)
      [] OTHER -> /\ ret' = err
                  /\ pc' = "idle"
                  /\ elapsed' = 0
                  /\ timeout_ms' = 0
                  /\ UNCHANGED <<errno, heap, ctrlr, cregs, rpools, events, stage, caller>>

\* one round of the loop of nvme_mmio_csts_wait_until_{ready,not_ready}(): CSTS has
\* the awaited value, or not and usleep(), or the loop ends with -ETIMEDOUT
WaitPoll ==
    /\ pc = "wait"
    /\ LET w == nvme_mmio_csts_wait_step(cregs, Awaited, elapsed, timeout_ms) IN
         IF w.done
         THEN \E calloc_ok \in BOOLEAN : WaitReturn(w.err, calloc_ok)
         ELSE /\ elapsed' = w.elapsed
              /\ UNCHANGED <<pc, caller, ret, errno, heap, ctrlr, cregs, rpools, events,
                             stage, timeout_ms>>
    /\ tick' = 1 - tick
    /\ mmio_log' = <<>>
    /\ UNCHANGED <<ctlframe, last, entry, qids, fds>>

\* nvme_controller_close() of an opened controller: hostmem_dma_free(buf),
\* pci_func_close(); the memset() that follows clears sizeof(*memset) bytes
ControllerClose ==
    /\ pc = "idle"
    /\ stage = "none"
    /\ last = "controller_open"
    /\ ret = 0
    /\ heap' = hostmem_dma_free(heap, ctrlr.buf)
    /\ LET u == pci_bar_unmap(ctrlr.bar0, fds) IN
         /\ fds' = u.fds
         /\ ctrlr' = [ctrlr EXCEPT !.bar0 = u.bar]
    /\ HostStep("controller_close")
    /\ mmio_log' = <<>>
    /\ UNCHANGED <<ctlframe, pc, caller, ret, errno, entry, qids, cregs, rpools, elapsed,
                   timeout_ms, events, stage>>

\* the Create I/O Completion Queue and Create I/O Submission Queue commands of
\* nvme_controller_create_io_qpair() for the queue pair q
CreateCqCmd_qid_in_upper_half(q) ==
    [cdw10 |-> q.qid * 65536 + q.depth, cdw11 |-> 1, opc |-> 5,
     prp1 |-> hostmem_dma_v2p(q.cq)]

CreateCqCmd(q) ==
    [cdw10 |-> q.depth * 65536 + q.qid, cdw11 |-> 1, opc |-> 5,
     prp1 |-> hostmem_dma_v2p(q.cq)]

CreateSqCmd(q) ==
    [cdw10 |-> q.depth * 65536 + q.qid, cdw11 |-> q.qid * 65536 + 1, opc |-> 1,
     prp1 |-> hostmem_dma_v2p(q.sq)]

\* an admin command handed to nvme_qpair_submit_sync() and what the call returned
Submitted(c, r) == [cmd |-> c, ret |-> r]

\* a controller nvme_controller_open() has opened
Opened == ctrlr.bar0.region = Bar0Region /\ ctrlr.aq.rpool # NULL

\* a call of nvme_controller_create_io_qpair(ctrlr, qpair, depth); cq_ret and sq_ret
\* are what nvme_qpair_submit_sync() on the admin queue returns for the two commands
CreateIoQpair(depth, calloc_ok, cq_ret, sq_ret) ==
    /\ pc = "idle"
    /\ stage = "none"
    /\ Opened
    /\ Len(ioq) < MaxCreate
    /\ LET qid == nvme_qid_find_free(qids)
           m   == nvme_qpair_init_mem(heap, rpools, calloc_ok)
           q   == [cq |-> m.cq, depth |-> depth, qid |-> qid, rpool |-> m.rpool,
                   sq |-> m.sq]
       IN IF qid < 1
          THEN /\ ret' = -ENOMEM
               /\ events' = <<>>
               /\ UNCHANGED <<errno, heap, rpools, qids, ioq>>
          ELSE /\ heap' = m.heap
               /\ rpools' = m.rpools
               /\ IF m.err # 0
                  THEN /\ qids' = nvme_qid_free(qids, depth).bitmap
                       /\ ret' = m.err
                       /\ errno' = m.errno
                       /\ events' = <<>>
                       /\ UNCHANGED ioq
                  ELSE /\ UNCHANGED <<qids, errno>>
                       /\ IF cq_ret # 0
                          THEN /\ ret' = cq_ret
                               /\ events' = <<Submitted(CreateCqCmd(q), cq_ret)>>
                               /\ UNCHANGED ioq
                          ELSE /\ ret' = sq_ret
                               /\ events' = <<Submitted(CreateCqCmd(q), cq_ret),
                                               Submitted(CreateSqCmd(q), sq_ret)>>
                               /\ ioq' = IF sq_ret = 0 THEN Append(ioq, q) ELSE ioq
    /\ HostStep("create_io_qpair")
    /\ mmio_log' = <<>>
    /\ UNCHANGED <<qpvars, loopvars, held, entry, ctrlr, cregs, fds, elapsed, timeout_ms, stage>>

\* what a read-modify-write of word nvme_qid_word(q) leaves: the accessors' result
\* when the word lies in ctrlr->qids[]; past the end of the array the access is
\* undefined, the store reaches memory of other fields and the bitmap as later
\* calls see it either shows the change or does not
QidStoreOutcomes(bitmap, q, r) ==
    IF r.ret # 0 \/ nvme_qid_word(q) < NVME_QID_BITMAP_WORDS
    THEN {r.bitmap}
    ELSE {r.bitmap, bitmap}

\* a call of nvme_qid_alloc(ctrlr->qids, q)
QidAlloc(q) ==
    /\ pc = "idle"
    /\ stage = "none"
    /\ Opened
    /\ LET a == nvme_qid_alloc(qids, q) IN
         /\ qids' \in QidStoreOutcomes(qids, q, a)
         /\ ret' = a.ret
    /\ HostStep("qid_alloc")
    /\ mmio_log' = <<>>
    /\ UNCHANGED <<qpvars, loopvars, errno, heap, held, entry, ctrlr, ioq, cregs, fds,
                   rpools, elapsed, timeout_ms, events, stage>>

\* a call of nvme_qid_free(ctrlr->qids, q); the caller gives up the queue pairs of
\* that id
QidFree(q) ==
    /\ pc = "idle"
    /\ stage = "none"
    /\ Opened
    /\ LET f == nvme_qid_free(qids, q) IN
         /\ qids' \in QidStoreOutcomes(qids, q, f)
         /\ ret' = f.ret
    /\ ioq' = SelectSeq(ioq, LAMBDA p : p.qid # q)
    /\ HostStep("qid_free")
    /\ mmio_log' = <<>>
    /\ UNCHANGED <<qpvars, loopvars, errno, heap, held, entry, ctrlr, cregs, fds,
                   rpools, elapsed, timeout_ms, events, stage>>

\* a call of nvme_qid_is_allocated(ctrlr->qids, q); a word past the end of the
\* array reads as whatever lies there
QidIsAllocated(q) ==
    /\ pc = "idle"
    /\ stage = "none"
    /\ Opened
    /\ LET r == nvme_qid_is_allocated(qids, q) IN
         ret' \in (IF r < 0 \/ nvme_qid_word(q) < NVME_QID_BITMAP_WORDS
                   THEN {r} ELSE {0, 1})
    /\ HostStep("qid_is_allocated")
    /\ mmio_log' = <<>>
    /\ UNCHANGED <<qpvars, loopvars, errno, sysvars>>

\* a call of nvme_qid_find_free(ctrlr->qids)
QidFindFree ==
    /\ pc = "idle"
    /\ stage = "none"
    /\ Opened
    /\ ret' = nvme_qid_find_free(qids)
    /\ HostStep("qid_find_free")
    /\ mmio_log' = <<>>
    /\ UNCHANGED <<qpvars, loopvars, errno, sysvars>>

(* ---------------- the device ---------------- *)

\* the device fetches the next SQE announced by the SQ tail doorbell
DevFetch ==
    /\ dev.sqhd # bar0.sqdb
    /\ dev' = [dev EXCEPT !.pending = dev.pending \cup {sq[dev.sqhd].cid},
                          !.sqhd = (dev.sqhd + 1) % qp.depth]
    /\ UNCHANGED <<qp, sq, cq, rpool, bar0, nenq, announced, posted, nreap,
                   issued, busy>>
    /\ UNCHANGED hostvars
    /\ UNCHANGED <<errno, sysvars>>

\* the device completes a fetched command: it writes the CQE into its CQ tail slot,
\* tagged with the phase of its current pass, unless the slot was not released
DevPost(c, sc) ==
    /\ c \in dev.pending
    /\ dev.cqfree > 0
    /\ LET cqe == [cid |-> c, status |-> 2 * sc + dev.phase]
           wrap == dev.cqtail + 1 = qp.depth
       IN /\ cq' = [cq EXCEPT ![dev.cqtail] = cqe]
          /\ posted' = Append(posted, cqe)
          /\ dev' = [dev EXCEPT !.pending = dev.pending \ {c},
                                !.cqtail = IF wrap THEN 0 ELSE dev.cqtail + 1,
                                !.phase = IF wrap THEN 1 - dev.phase ELSE dev.phase,
                                !.cqfree = dev.cqfree - 1]
    /\ UNCHANGED <<qp, sq, rpool, bar0, nenq, announced, nreap, issued, busy>>
    /\ UNCHANGED hostvars
    /\ UNCHANGED <<errno, sysvars>>

\* the device completes a fetched command with a CQE that carries the cid k, the
\* command's own or another one
DevPostCid(c, k, sc) ==
    /\ c \in dev.pending
    /\ dev.cqfree > 0
    /\ LET cqe == [cid |-> k, status |-> 2 * sc + dev.phase]
           wrap == dev.cqtail + 1 = qp.depth
       IN /\ cq' = [cq EXCEPT ![dev.cqtail] = cqe]
          /\ posted' = Append(posted, cqe)
          /\ dev' = [dev EXCEPT !.pending = dev.pending \ {c},
                                !.cqtail = IF wrap THEN 0 ELSE dev.cqtail + 1,
                                !.phase = IF wrap THEN 1 - dev.phase ELSE dev.phase,
                                !.cqfree = dev.cqfree - 1]
    /\ UNCHANGED <<qp, sq, rpool, bar0, nenq, announced, nreap, issued, busy>>
    /\ UNCHANGED hostvars
    /\ UNCHANGED <<errno, sysvars>>

\* a test harness writes an arbitrary entry into a CQ slot
MockCqWrite(s, cqe) ==
    /\ s \in DOMAIN cq
    /\ cq' = [cq EXCEPT ![s] = cqe]
    /\ UNCHANGED <<qp, sq, rpool, bar0, dev, nenq, announced, posted, nreap,
                   issued, busy>>
    /\ UNCHANGED hostvars
    /\ UNCHANGED <<errno, sysvars>>

\* the controller follows CC.EN: CSTS.RDY takes its value, at a time of its choosing
DevRdy ==
    /\ cregs.rdy # cregs.cc % 2
    /\ cregs' = [cregs EXCEPT !.rdy = cregs.cc % 2]
    /\ UNCHANGED <<qpvars, hostvars, errno, heap, held, entry, ctrlr, qids, ioq, fds, rpools,
                   elapsed, timeout_ms, events, stage>>

\* a test harness sets CSTS.RDY
MockCsts(v) ==
    /\ cregs.rdy # v
    /\ cregs' = [cregs EXCEPT !.rdy = v]
    /\ UNCHANGED <<qpvars, hostvars, errno, heap, held, entry, ctrlr, qids, ioq, fds, rpools,
                   elapsed, timeout_ms, events, stage>>

\* the device fetches the next announced SQE with a DMA read of memory
DevFetchDma ==
    /\ dev.sqhd # bar0.sqdb
    /\ dev' = [dev EXCEPT !.pending = dev.pending \cup {dma.sqdev[dev.sqhd].cid},
                          !.sqhd = (dev.sqhd + 1) % qp.depth]
    /\ UNCHANGED <<qp, sq, cq, rpool, bar0, nenq, announced, posted, nreap, issued, busy>>
    /\ UNCHANGED hostvars
    /\ UNCHANGED <<errno, sysvars>>

\* the device completes a fetched command with the result v in dword 0: one DMA write
\* of the whole CQE; a load of the host that ran ahead while it polls has the old dword
DevPostDma(c, sc, v) ==
    /\ c \in dev.pending
    /\ dev.cqfree > 0
    /\ LET cqe == [cid |-> c, status |-> 2 * sc + dev.phase]
           wrap == dev.cqtail + 1 = qp.depth
       IN /\ cq' = [cq EXCEPT ![dev.cqtail] = cqe]
          /\ posted' = Append(posted, cqe)
          /\ dma' = [dma EXCEPT !.dw0[dev.cqtail] = v,
                                !.early[dev.cqtail] =
                                    IF pc = "reap" THEN dma.dw0[dev.cqtail] ELSE v]
          /\ dev' = [dev EXCEPT !.pending = dev.pending \ {c},
                                !.cqtail = IF wrap THEN 0 ELSE dev.cqtail + 1,
                                !.phase = IF wrap THEN 1 - dev.phase ELSE dev.phase,
                                !.cqfree = dev.cqfree - 1]
    /\ UNCHANGED <<qp, sq, rpool, bar0, nenq, announced, nreap, issued, busy>>
    /\ UNCHANGED hostvars
    /\ UNCHANGED <<errno, sysvars0>>

(* ---------------- specifications ---------------- *)

Opcodes == {2}
Timeouts == {0, 2}
StatusCodes == {0, 1}
MockCqes == [cid : {0, CID_INVALID}, status : {0, 1}]

CmdCids == {0, 1}

\* nvme_qpair_submit_sync() and nvme_qpair_reap_cpl() against the device
Next ==
    \/ \E t \in Timeouts : ReapCpl(t)
    \/ \E o \in Opcodes, t \in Timeouts : SubmitSync(o, t)
    \/ Poll
    \/ DevFetch
    \/ \E c \in dev.pending, sc \in StatusCodes : DevPost(c, sc)

Spec == Init /\ [][Next]_vars

\* the submission side: nvme_qpair_enqueue() and nvme_qpair_sqdb_update()
NextSq ==
    \/ \E c \in CmdCids, o \in Opcodes : Enqueue([cid |-> c, opc |-> o])
    \/ SqdbUpdate
    \/ DevFetch

SpecSq == Init /\ [][NextSq]_vars

\* the request pool alone
NextPool ==
    \/ RequestAlloc
    \/ \E c \in issued : RequestFree(c)

SpecPool == Init /\ [][NextPool]_vars

\* the request pool with a caller that frees cids whether it holds them or not,
\* while at most MaxAllocated cells of the stack are empty
AnyFrees == {0, 1, 2}

NextPoolAny ==
    \/ RequestAlloc
    \/ \E c \in AnyFrees :
          rpool.top >= NVME_REQUEST_POOL_LEN - MaxAllocated /\ RequestFreeCall(c)

SpecPoolAny == Init /\ [][NextPoolAny]_vars

\* the cids the caller of the nearly exhausted pool gives back
PoolFullFrees == {0, 1, NVME_REQUEST_POOL_LEN - 1}

\* the request pool when all 1024 requests are out
InitPoolFull ==
    /\ InitQp
    /\ qp.depth = 1
    /\ InitPoolAfterAllocs(NVME_REQUEST_POOL_LEN)
    /\ InitSys(hostmem_heap_init(HUGEPGSZ), RegsAtRest)

NextPoolFull ==
    \/ RequestAllocCall
    \/ \E c \in PoolFullFrees : rpool.top < MaxPoolFree /\ RequestFree(c)

SpecPoolFull == InitPoolFull /\ [][NextPoolFull]_vars

\* request sizes: nothing, less than a page, more than a page, all of the heap but
\* four pages, all of the heap but the header page, more than the heap
HeapSizes == {0, 1, PAGESIZE + 1, HUGEPGSZ - 4 * PAGESIZE, HUGEPGSZ - PAGESIZE,
              HUGEPGSZ + 1}

\* the heap alone, from hostmem_heap_init() on
InitHeap == Init /\ qp.depth = 1

NextHeap ==
    \/ \E n \in HeapSizes : HeapAlloc(n)
    \/ \E p \in held \cup {NULL} : HeapFree(p)

SpecHeap == InitHeap /\ [][NextHeap]_vars

\* aligned allocations: a cache line, a page, two pages; sizes of a byte and of a
\* page less two cache lines; the harness stops allocating when the block list
\* has more than MaxAlignedBlocks blocks
Alignments == {64, PAGESIZE, 2 * PAGESIZE}
AlignedSizes == {1, PAGESIZE - 2 * 64}

NextHeapAligned ==
    \/ \E n \in AlignedSizes, a \in Alignments :
          Len(heap.freelist) <= MaxAlignedBlocks /\ HeapAllocAligned(n, a)
    \/ \E p \in held \cup {NULL} : HeapFree(p)

SpecHeapAligned == InitHeap /\ [][NextHeapAligned]_vars

\* a heap of two hugepages; request sizes: one page, two pages, the first hugepage
\* but two pages
Heap2Sizes == {1, PAGESIZE + 1, HUGEPGSZ - 2 * PAGESIZE}

\* physical addresses of its two hugepages: consecutive, or in reverse order and apart
PhysLuts == {<<16 * HUGEPGSZ, 17 * HUGEPGSZ>>, <<40 * HUGEPGSZ, 16 * HUGEPGSZ>>}

InitHeap2 ==
    /\ InitQp
    /\ qp.depth = 1
    /\ InitPool
    /\ \E lut \in PhysLuts : InitSys(hostmem_heap_init_lut(2 * HUGEPGSZ, lut), RegsAtRest)

NextHeap2 ==
    \/ \E n \in Heap2Sizes : HeapAlloc(n)
    \/ \E p \in held \cup {NULL} : HeapFree(p)

SpecHeap2 == InitHeap2 /\ [][NextHeap2]_vars

\* sizes of the transfers prepared: 1, 2, 3, 4, 513 and 514 pages
PrpNbytes == {PAGESIZE, 2 * PAGESIZE, 3 * PAGESIZE, 4 * PAGESIZE, (1 + PRP_LIST_MAX) * PAGESIZE,
              (2 + PRP_LIST_MAX) * PAGESIZE}

\* physical addresses of the four hugepages of the heap: consecutive, or scattered
PrpLuts == {<<16 * HUGEPGSZ, 17 * HUGEPGSZ, 18 * HUGEPGSZ, 19 * HUGEPGSZ>>,
            <<40 * HUGEPGSZ, 16 * HUGEPGSZ, 24 * HUGEPGSZ, 17 * HUGEPGSZ>>}

\* a request pool with PRP pages, MaxPrpReqs requests taken from it, and a data
\* buffer of 514 pages, in a heap of four hugepages
InitPrp ==
    /\ InitQp
    /\ qp.depth = 1
    /\ InitPoolAfterAllocs(MaxPrpReqs)
    /\ \E lut \in PrpLuts :
         LET p == nvme_request_pool_init_prps(hostmem_heap_init_lut(4 * HUGEPGSZ, lut))
             d == hostmem_dma_malloc(p.heap, (2 + PRP_LIST_MAX) * PAGESIZE)
         IN /\ heap = d.heap
            /\ held = {p.prps, d.ptr}
            /\ entry = [fds |-> StdFds, freelist |-> d.heap.freelist, qids |-> {},
                        rpools |-> {}]
            /\ prpmem = [base |-> p.prps, list |-> <<>>]
    /\ prpcall = ZeroPrpCall
    /\ InitAux
    /\ ctrlr = ZeroCtrlr
    /\ qids = {}
    /\ ioq = <<>>
    /\ cregs = RegsAtRest
    /\ fds = StdFds
    /\ rpools = {}
    /\ elapsed = 0
    /\ timeout_ms = 0
    /\ events = <<>>
    /\ stage = "none"

\* the requests are prepared for transfers out of the data buffer
NextPrp ==
    \E c \in issued, dbuf \in held \ {prpmem.base}, n \in PrpNbytes : PrepPrps(c, dbuf, n)

SpecPrp == InitPrp /\ [][NextPrp]_vars

\* the values written to a CC field: none of its bits, all of them, and the entry
\* sizes nvme_controller_open() uses
CcVals(f) ==
    {0, Pow2(CcLayout(f).width) - 1}
        \cup (IF f = "IOSQES" THEN {6} ELSE IF f = "IOCQES" THEN {4} ELSE {})

\* the CC values the setters start from: no bit set, and bits 0..30 set
CcSamples == {0, Pow2(30) - 1 + Pow2(30)}

InitCc ==
    /\ InitQp
    /\ qp.depth = 1
    /\ InitPool
    /\ InitCore(hostmem_heap_init(HUGEPGSZ), RegsAtRest)
    /\ func = ZeroFunc
    /\ pcisys = NoSys
    /\ InitRest
    /\ \E c \in CcSamples :
         fcall = [cc |-> c, field |-> "EN", fn |-> "init", out |-> c, val |-> c % 2]

\* chains of CC setters
NextCc == \E f \in CcFields : \E v \in CcVals(f) : CcSet(f, v)

SpecCc == InitCc /\ [][NextCc]_vars

\* the fields of the texts parsed, in either case, in range and out of range
TextDomains == {<<"7", "f", "f", "f">>, <<"0", "0", "A", "1">>}
TextBuses == {<<"0", "0">>, <<"F", "e">>}
TextDevices == {<<"0", "9">>, <<"1", "F">>, <<"2", "0">>}
TextFunctions == {<<"0">>, <<"7">>, <<"8">>, <<"f">>}

\* texts of the form dddd:bb:dd.f
BdfTexts ==
    {d \o <<":">> \o b \o <<":">> \o v \o <<".">> \o f :
        d \in TextDomains, b \in TextBuses, v \in TextDevices, f \in TextFunctions}

InitAddr ==
    /\ InitQp
    /\ qp.depth = 1
    /\ InitPool
    /\ InitCore(hostmem_heap_init(HUGEPGSZ), RegsAtRest)
    /\ func = ZeroFunc
    /\ pcisys = NoSys
    /\ InitRest
    /\ fcall = [err |-> 0, fn |-> "addr_init", out |-> <<>>, text |-> <<>>, value |-> 0]

\* texts are parsed, and the addresses they give are printed
NextAddr ==
    \/ \E t \in BdfTexts : AddrFromText(t)
    \/ AddrToText

SpecAddr == InitAddr /\ [][NextAddr]_vars

\* the BARs the device implements: only they have a resource file in sysfs
ImplementedBars == {0, 2, 4}

\* how the system calls of pci_bar_map() can end for BAR id
BarMapOutcomes(id) == IF id \in ImplementedBars THEN {"stat", "open", "mmap", "ok"} ELSE {"stat"}

\* a zeroed struct pci_func in a process that has its standard descriptors open
InitPci ==
    /\ InitQp
    /\ qp.depth = 1
    /\ InitPool
    /\ InitSys(hostmem_heap_init(HUGEPGSZ), RegsAtRest)

\* the function is opened, its BARs are mapped and unmapped, the function is closed
NextPci ==
    \/ \E o \in {"ok", "fail"} : PciFuncOpen(o)
    \/ \E id \in DOMAIN func.bars : \E o \in BarMapOutcomes(id) : PciBarMap(id, o)
    \/ \E id \in DOMAIN func.bars : PciBarUnmap(id)
    \/ PciFuncClose

SpecPci == InitPci /\ [][NextPci]_vars

\* sizes asked of hostmem_hugepage_alloc(): a hugepage, two, and one byte more than one
HugeSizes == {HUGEPGSZ, 2 * HUGEPGSZ, HUGEPGSZ + 1}

\* the files another process shares: a memfd by its /proc path, a hugetlbfs file, and
\* a file whose size is no multiple of the hugepage size
PeerMemfd == ProcFdPath(9)
PeerHugetlb == HugetlbPath(7)
PeerFiles == {<<PeerMemfd, HUGEPGSZ>>, <<PeerHugetlb, 2 * HUGEPGSZ>>, <<PeerMemfd, PAGESIZE>>}

AllocOutcomes == {"open", "ftruncate", "mmap", "mlock", "pagemap", "ok"}
ImportOutcomes == {"open", "fstat", "mmap", "pagemap", "ok"}

\* a zeroed descriptor in a process that called hostmem_state_init() for either backend
InitHuge ==
    /\ InitQp
    /\ qp.depth = 1
    /\ InitPool
    /\ InitCore(hostmem_heap_init(HUGEPGSZ), RegsAtRest)
    /\ fcall = NoCall
    /\ func = ZeroFunc
    /\ pcisys = NoSys
    /\ hugepage = ZeroHugepage
    /\ \E b \in {HOSTMEM_BACKEND_MEMFD, HOSTMEM_BACKEND_HUGETLBFS} :
         g_hostmem_state = HostmemState(b)
    /\ hugesys = [files |-> {PeerHugetlb}, mapped |-> {}]
    /\ dma = NoDma

\* hugepages are allocated, imported and freed
NextHuge ==
    \/ \E n \in HugeSizes, o \in AllocOutcomes : HugepageAlloc(n, o)
    \/ \E f \in PeerFiles, o \in ImportOutcomes : HugepageImport(f[1], f[2], o)
    \/ HugepageFree

SpecHuge == InitHuge /\ [][NextHuge]_vars

\* the results the device reports in dword 0
Dw0Vals == {1}

\* the queue pair after nvme_qpair_init(): both queues zeroed, in memory too
InitDma ==
    /\ InitQp
    /\ qp.depth = MaxDepth
    /\ InitPool
    /\ InitCore(hostmem_heap_init(HUGEPGSZ), RegsAtRest)
    /\ fcall = NoCall
    /\ func = ZeroFunc
    /\ pcisys = NoSys
    /\ hugepage = ZeroHugepage
    /\ g_hostmem_state = HostmemState(HOSTMEM_BACKEND_MEMFD)
    /\ hugesys = NoHugeSys
    /\ dma = [cpl_dw0 |-> 0, dw0 |-> [s \in DOMAIN cq |-> 0],
              early |-> [s \in DOMAIN cq |-> 0], sqdev |-> sq]

\* enqueue, doorbell and reap on a weakly ordered host, against the device
NextDma ==
    \/ \E o \in Opcodes : nenq < MaxDmaEnq /\ Enqueue([cid |-> nenq, opc |-> o])
    \/ SqdbUpdateDma
    \/ \E s \in DOMAIN sq : SqeVisible(s)
    \/ nreap < nenq /\ ReapCpl(MaxDmaEnq)
    \/ PollDma
    \/ DevFetchDma
    \/ \E c \in dev.pending, v \in Dw0Vals : DevPostDma(c, 0, v)

SpecDma == InitDma /\ [][NextDma]_vars

\* timeouts handed to the wait loops
WaitTimeouts == {0, 1, 2}

\* the wait loops over a CSTS register that a harness sets
NextWait ==
    \/ \E t \in WaitTimeouts : WaitUntilReady(t)
    \/ \E t \in WaitTimeouts : WaitUntilNotReady(t)
    \/ WaitPoll
    \/ \E v \in {0, 1} : MockCsts(v)

SpecWait == InitHeap /\ [][NextWait]_vars

\* nvme_qpair_submit_sync() against a device that answers with the cid of the
\* command, with the first cid past the request pool, or with the largest valid cid
PostedCids(c) == {c, NVME_REQUEST_POOL_LEN, CID_INVALID - 1}

NextSyncAny ==
    \/ \E o \in Opcodes, t \in Timeouts : SubmitSync(o, t)
    \/ Poll
    \/ DevFetch
    \/ \E c \in dev.pending : \E k \in PostedCids(c) : DevPostCid(c, k, 0)

SpecSyncAny == Init /\ [][NextSyncAny]_vars

\* every polling loop against a device that posts completions and changes CSTS.RDY
\* when it likes, or never; the host thread keeps running: usleep() returns and the
\* loop it is in takes its next round; the host waits for CSTS.RDY before it
\* enqueues its first command
BringUp == nenq = 0

NextLive ==
    \/ \E t \in Timeouts : ReapCpl(t)
    \/ \E o \in Opcodes, t \in Timeouts : SubmitSync(o, t)
    \/ Poll
    \/ DevFetch
    \/ \E c \in dev.pending, sc \in StatusCodes : DevPost(c, sc)
    \/ \E t \in WaitTimeouts : BringUp /\ WaitUntilReady(t)
    \/ \E t \in WaitTimeouts : BringUp /\ WaitUntilNotReady(t)
    \/ WaitPoll
    \/ \E v \in {0, 1} : BringUp /\ MockCsts(v)

InitLive == Init /\ qp.depth = MaxDepth

SpecLive == InitLive /\ [][NextLive]_vars /\ WF_vars(Poll) /\ WF_vars(WaitPoll)

\* what the application took from the heap before it opens the controller: little,
\* or so much that the CQ, the SQ or the scratch buffer does not fit any more
AppAllocs == {1, HUGEPGSZ - 20 * PAGESIZE, HUGEPGSZ - 3 * PAGESIZE, HUGEPGSZ - 2 * PAGESIZE}

\* the registers the controller is found with: CAP.TO 0 or 1, enabled or not,
\* ready or not
CtrlRegs ==
    {[acq |-> 0, aqa |-> 0, asq |-> 0, cc |-> cc, rdy |-> rdy, to |-> to] :
       cc \in {0, OpenCc}, rdy \in {0, 1}, to \in {0, 1}}

PciErrs == {0, -ENOENT}
MapOutcomes == {"ok", "stat", "open", "mmap"}

InitCtrl ==
    /\ InitQp
    /\ qp.depth = 1
    /\ InitPool
    /\ \E n \in AppAllocs, r \in CtrlRegs :
         InitSys(hostmem_heap_block_alloc(hostmem_heap_init(HUGEPGSZ), n).heap, r)

\* nvme_controller_open() and nvme_controller_close() against the controller
NextCtrl ==
    \/ \E e \in PciErrs, o \in MapOutcomes : ControllerOpen(e, o)
    \/ WaitPoll
    \/ ControllerClose
    \/ DevRdy

SpecCtrl == InitCtrl /\ [][NextCtrl]_vars

\* nvme_qpair_reap_cpl() over a CQ that a harness writes
\* create_io_qpair and the qid bitmap on an opened controller; the application
\* holds one block that leaves room for the queues of one, or of two, queue pairs
IoqAppAllocs == {HUGEPGSZ - 88 * PAGESIZE, HUGEPGSZ - 105 * PAGESIZE}
IoDepths == {0, 2}
QidArgs == {0, 1, 2, NVME_QID_MAX}
SubmitSyncRets == {0, -EIO, EAGAIN}

\* the state after a successful nvme_controller_open(), the qid bitmap apart
InitIoqCtrlr ==
    /\ InitQp
    /\ qp.depth = 1
    /\ InitPool
    /\ \E n \in IoqAppAllocs :
         LET a == hostmem_heap_block_alloc(hostmem_heap_init(HUGEPGSZ), n)
             b == hostmem_dma_malloc(a.heap, BUF_NBYTES)
             m == nvme_qpair_init_mem(b.heap, {}, TRUE)
             bar == pci_bar_map([fd |-> -1, region |-> NULL], StdFds, "ok")
         IN /\ heap = m.heap
            /\ held = {a.ptr}
            /\ entry = [fds |-> StdFds, freelist |-> a.heap.freelist, qids |-> {},
                        rpools |-> {}]
            /\ ctrlr = [aq |-> [cq |-> m.cq, rpool |-> m.rpool, sq |-> m.sq],
                        bar0 |-> bar.bar, buf |-> b.ptr, timeout_ms |-> CAP_TO_MS]
            /\ fds = bar.fds
            /\ rpools = m.rpools
            /\ LET aq == nvme_mmio_aq_setup(RegsAtRest, hostmem_dma_v2p(m.sq),
                                            hostmem_dma_v2p(m.cq), AQ_DEPTH)
               IN cregs = [nvme_mmio_cc_write(aq.regs, OpenCc).regs EXCEPT !.rdy = 1]
    /\ ioq = <<>>
    /\ elapsed = 0
    /\ timeout_ms = 0
    /\ events = <<>>
    /\ stage = "none"
    /\ prpcall = ZeroPrpCall
    /\ prpmem = NoPrps
    /\ InitAux

\* the state after a successful nvme_controller_open()
InitIoq == InitIoqCtrlr /\ qids = nvme_qid_bitmap_init

\* depths asked of create_io_qpair: small ones, the number of commands that fill
\* QUEUE_NBYTES, one more, and the largest whose cdw10 is below 2^31
CmdDepths == {1, 255, QUEUE_NBYTES \div SIZEOF_COMMAND, QUEUE_NBYTES \div SIZEOF_COMMAND + 1,
              Pow2(15) - 1}

\* create_io_qpair on the opened controller, with qids 1 and 2 taken or not
NextIoqCmd ==
    \/ \E d \in CmdDepths, cq_ret \in SubmitSyncRets, sq_ret \in SubmitSyncRets :
          CreateIoQpair(d, TRUE, cq_ret, sq_ret)
    \/ \E q \in {1, 2} : QidAlloc(q)

SpecIoqCmd == InitIoq /\ [][NextIoqCmd]_vars

\* the qid accessors on the opened controller, with the bitmap as the open left it
\* or after find_free + alloc handed out the qids up to the last bit the scan
\* reaches; the arguments lie around the end of the array
LastScanned == NVME_QID_BITMAP_WORDS * BITS_PER_WORD - 1
WideQidArgs == {LastScanned, LastScanned + 1, NVME_QID_MAX - 1, NVME_QID_MAX}

InitQid ==
    /\ InitIoqCtrlr
    /\ qids \in {nvme_qid_bitmap_init, 0..(LastScanned - 1)}

NextQid ==
    \/ \E q \in WideQidArgs : QidAlloc(q)
    \/ \E q \in WideQidArgs : QidFree(q)
    \/ \E q \in WideQidArgs : QidIsAllocated(q)
    \/ QidFindFree

SpecQid == InitQid /\ [][NextQid]_vars

NextIoq ==
    \/ \E d \in IoDepths, calloc_ok \in BOOLEAN, cq_ret \in SubmitSyncRets,
          sq_ret \in SubmitSyncRets : CreateIoQpair(d, calloc_ok, cq_ret, sq_ret)
    \/ \E q \in QidArgs : QidAlloc(q)
    \/ \E q \in QidArgs : QidFree(q)
    \/ QidFindFree

SpecIoq == InitIoq /\ [][NextIoq]_vars

NextCq ==
    \/ \E t \in Timeouts : ReapCpl(t)
    \/ Poll
    \/ \E s \in DOMAIN cq, e \in MockCqes : MockCqWrite(s, e)

SpecCq == Init /\ [][NextCq]_vars

(* ---------------- properties ---------------- *)

\* a step taken by the host, not by the device or the harness
HostStepTaken == tick' # tick

\* the step at which a reap succeeds
ReapSucceeds == nreap' = nreap + 1

\* the entry at the CQ head carries the queue's current phase
HeadCarriesPhase == (cq[qp.head].status % 2) = qp.phase

\* C1: the phase of the queue pair toggles at a successful reap that moves head
\* from depth-1 to 0 and at no other step, so that after n successful reaps head is
\* n mod depth and the phase has toggled once per completed pass (after depth reaps:
\* head 0, phase 0)
C1_PhaseTogglesExactlyOnWrap ==
    /\ [][IF ReapSucceeds /\ qp.head = qp.depth - 1
          THEN qp'.head = 0 /\ qp'.phase = 1 - qp.phase
          ELSE qp'.phase = qp.phase]_vars
    /\ [](/\ qp.head = nreap % qp.depth
          /\ qp.phase = (1 + (nreap \div qp.depth)) % 2)

C1_Witness ==
    /\ qp.depth >= 2
    /\ nreap = qp.depth
    /\ qp.head = 0
    /\ qp.phase = 0
    /\ pc = "idle"
    /\ ret = 0

C2_ReapedInPostingOrder ==
    [][/\ ReapSucceeds =>
            /\ nreap < Len(posted)
            /\ cpl' = posted[nreap + 1]
       /\ (pc = "reap" /\ HostStepTaken /\ i < timeout_us /\ nreap < Len(posted)) =>
            ReapSucceeds]_vars

C2_Witness ==
    /\ qp.depth >= 2
    /\ nreap = Len(posted)
    /\ nreap >= qp.depth
    /\ pc = "idle"
    /\ ret \in {EAGAIN, -EAGAIN}
    /\ nsleep = 2
    /\ cq[qp.head].cid < CID_INVALID
    /\ cq[qp.head] = posted[nreap + 1 - qp.depth]

\* C6: when nvme_qpair_submit_sync() returns 0, the completion it hands back
\* carries the cid the call assigned to its command
C6_SyncCompletionIsOwn ==
    (last = "submit_sync" /\ pc = "idle" /\ ret = 0) => cpl.cid = req

\* C7: when nvme_qpair_submit_sync() reaps a completion, the pool's top is back at
\* its value at the entry of the call, and the call returns -EIO exactly when the
\* status code bits of the completion are non-zero
C7_ErrorStatusStillFrees ==
    [][(pc = "reap" /\ caller = "submit_sync" /\ ReapSucceeds) =>
         /\ pc' = "idle"
         /\ rpool'.top = entry_top
         /\ ret' = IF (cpl'.status \div 2) % 256 # 0 THEN -EIO ELSE 0]_vars

C7_Witness ==
    /\ last = "submit_sync"
    /\ pc = "idle"
    /\ ret = -EIO
    /\ (cpl.status \div 2) % 256 # 0
    /\ rpool.top = entry_top

\* C3: nvme_qpair_sqdb_update() writes the SQ doorbell exactly when tail differs
\* from tail_last_written, the value written is tail, afterwards tail_last_written
\* equals tail, and a call that directly follows another one writes nothing
C3_DoorbellWrittenIffTailMoved ==
    [][(last' = "sqdb_update" /\ HostStepTaken) =>
         /\ mmio_log' = IF qp.tail # qp.tail_last_written
                        THEN << [reg |-> "sqdb", val |-> qp.tail] >>
                        ELSE <<>>
         /\ bar0'.sqdb = IF qp.tail # qp.tail_last_written THEN qp.tail ELSE bar0.sqdb
         /\ qp'.tail_last_written = qp'.tail
         /\ qp'.tail = qp.tail
         /\ (last = "sqdb_update" => mmio_log' = <<>>)]_vars

C3_Witness ==
    /\ last = "sqdb_update"
    /\ mmio_log = <<>>
    /\ nenq >= 1
    /\ bar0.sqdb = qp.tail
    /\ qp.tail_last_written = qp.tail
    /\ qp.tail # 0

\* C4: when nvme_qpair_sqdb_update() has returned, an SQ doorbell write has happened
\* after the last nvme_qpair_enqueue(), so every enqueued SQE is announced
C4_UpdateAnnouncesAll ==
    (qp.depth >= 2 /\ last = "sqdb_update") => announced = nenq

\* C5: nvme_qpair_enqueue() stores the command in SQ slot tail, which for the k-th
\* enqueue is slot (k-1) mod depth, sets tail to (tail + 1) mod depth, writes no
\* doorbell and changes nothing else of the queue pair, the CQ or the pool
C5_EnqueueFrame ==
    [][(last' = "enqueue" /\ HostStepTaken) =>
         /\ qp.tail = nenq % qp.depth
         /\ sq' = [sq EXCEPT ![qp.tail] = ucmd']
         /\ qp' = [qp EXCEPT !.tail = (qp.tail + 1) % qp.depth]
         /\ qp'.tail \in 0..(qp.depth - 1)
         /\ mmio_log' = <<>>
         /\ ret' = 0
         /\ UNCHANGED <<bar0, cq, rpool>>]_vars

C5_Witness ==
    /\ last = "enqueue"
    /\ qp.depth >= 2
    /\ nenq = qp.depth + 1
    /\ qp.tail = 1
    /\ sq[0] = ucmd
    /\ sq[1] # ucmd

\* the cids on the free stack, stack[0..top)
FreeCids(pool) == {StackAt(pool, k) : k \in 0..(pool.top - 1)}

AllCids == 0..(NVME_REQUEST_POOL_LEN - 1)

\* C9: the cids on the free stack are pairwise distinct, and the free cids and the
\* cids handed out and not yet freed partition 0..1023
C9_FreeAndAllocatedPartition ==
    LET free == FreeCids(rpool) IN
    /\ rpool.top \in 0..NVME_REQUEST_POOL_LEN
    /\ Cardinality(free) = rpool.top
    /\ \A c \in issued : c \notin free
    /\ free \cup issued = AllCids

C9_Witness ==
    /\ last = "request_free"
    /\ Cardinality(issued) >= 2
    /\ rpool.stack # <<>>

\* C10: after nvme_request_free(c) of an allocated cid c, exactly c has become
\* available, and an nvme_request_alloc() made next returns the request whose cid is c
C10_FreeThenAllocIsLifo ==
    [][(last' = "request_free" /\ HostStepTaken) =>
         LET freed  == issued \ issued'
             before == FreeCids(rpool)
             a      == nvme_request_alloc(rpool')
         IN /\ Cardinality(freed) = 1
            /\ rpool'.top = rpool.top + 1
            /\ FreeCids(rpool') = before \cup freed
            /\ \A c \in freed : c \notin before
            /\ a.req # NULL
            /\ {ReqCid(a.req)} = freed
            /\ a.pool.top = rpool.top]_vars

C10_Witness ==
    /\ last = "request_free"
    /\ issued # {}
    /\ rpool.top < NVME_REQUEST_POOL_LEN
    /\ StackAt(rpool, rpool.top - 1) # InitStack(rpool.top - 1)
    /\ ReqCid(nvme_request_alloc(rpool).req) = StackAt(rpool, rpool.top - 1)

\* C11: nvme_request_alloc() on a pool with all 1024 requests out returns NULL with
\* errno = ENOMEM and leaves the pool as it is; after one nvme_request_free() the
\* next alloc succeeds and returns the cid just freed
C11_ExhaustedAllocReturnsNull ==
    [][(last' = "request_alloc" /\ HostStepTaken) =>
         IF rpool.top = 0
         THEN pc' = "idle" /\ ret' = NULL /\ errno' = ENOMEM /\ rpool' = rpool
         ELSE (last = "request_free" /\ rpool.top = 1) =>
                (ret' # NULL /\ AllCids \ issued = {ReqCid(ret')})]_vars

\* the block list right after hostmem_heap_init()
SingleFreeBlock == <<[addr |-> 0, free |-> 1, size |-> heap.size]>>

\* C19: a successful hostmem_heap_block_alloc() immediately followed by
\* hostmem_heap_block_free() of the pointer it returned leaves the block list as it
\* was before the allocation: same blocks, same sizes, same free flags
C19_AllocThenFreeRestores ==
    [][(last = "heap_alloc" /\ ret # NULL /\ last' = "heap_free" /\ HostStepTaken
          /\ held' = held \ {ret})
         => heap'.freelist = entry.freelist]_vars

C19_Witness ==
    /\ last = "heap_free"
    /\ Len(heap.freelist) >= 3
    /\ heap.freelist = entry.freelist
    /\ ret \notin held
    /\ ret # NULL

\* C20: whenever every block handed out by hostmem_heap_block_alloc() has been
\* given back, in whatever order, the block list is one free block of the heap size
C20_AllFreedIsOneBlock ==
    held = {} => heap.freelist = SingleFreeBlock

C20_Witness ==
    /\ last = "heap_free"
    /\ held = {}
    /\ entry.freelist # SingleFreeBlock
    /\ Len(entry.freelist) >= 3
    /\ heap.freelist = SingleFreeBlock

\* what an entry of events is: a CC write by the value of its EN bit, a CSTS read by
\* the value of RDY it saw, any other write by its register
EvKind(e) ==
    IF e.op = "write" /\ e.reg = "cc" THEN (IF e.val % 2 = 0 THEN "cc_en0" ELSE "cc_en1")
    ELSE IF e.op = "read" THEN (IF e.val = 0 THEN "rdy0" ELSE "rdy1")
    ELSE e.reg

OpenOrder == <<"cc_en0", "rdy0", "asq", "acq", "aqa", "cc_en1", "rdy1">>

\* nvme_controller_open() has returned
OpenReturned == last = "controller_open" /\ pc = "idle" /\ stage = "none"

\* C12: the MMIO events of nvme_controller_open() come in the order CC with EN = 0,
\* CSTS seen with RDY = 0, ASQ, ACQ, AQA, CC with EN = 1, CSTS seen with RDY = 1; the
\* admin-queue registers are written only while CC.EN is 0 and in the step that saw
\* RDY = 0; when the wait for not-ready times out, no register is written any more
\* and open returns an error
C12_OpenMmioOrder ==
    /\ [](/\ Len(events) <= Len(OpenOrder)
          /\ \A k \in DOMAIN events : EvKind(events[k]) = OpenOrder[k]
          /\ (OpenReturned /\ ret = 0) => Len(events) = Len(OpenOrder))
    /\ [][/\ (cregs'.asq # cregs.asq \/ cregs'.acq # cregs.acq \/ cregs'.aqa # cregs.aqa)
             => (cregs.cc % 2 = 0 /\ cregs.rdy = 0 /\ stage = "open_not_ready"
                   /\ elapsed < timeout_ms)
          /\ (stage = "open_not_ready" /\ HostStepTaken /\ elapsed >= timeout_ms)
             => (OpenReturned' /\ ret' # 0 /\ cregs' = cregs /\ Len(events') = 1)]_vars

C12_Witness ==
    /\ OpenReturned
    /\ ret = 0
    /\ Len(events) = Len(OpenOrder)
    /\ cregs.asq = hostmem_dma_v2p(ctrlr.aq.sq)
    /\ cregs.cc = OpenCc

\* C13: a wait loop returns 0 when CSTS.RDY has the awaited value at one of its polls
\* within the timeout, and also when RDY has it already as the call starts, whatever
\* the timeout; otherwise it returns -ETIMEDOUT once the timeout is used up
C13_WaitResult ==
    [][(pc = "wait" /\ stage = "none" /\ HostStepTaken) =>
         IF cregs.rdy = Awaited /\ (elapsed < timeout_ms \/ elapsed = 0)
         THEN pc' = "idle" /\ ret' = 0
         ELSE IF elapsed >= timeout_ms
         THEN pc' = "idle" /\ ret' = -ETIMEDOUT
         ELSE pc' = "wait"]_vars

\* C14: when nvme_controller_open() returns an error, the heap's block list, the open
\* fds and the request pools from calloc() are what they were before the call
C14_FailedOpenReleasesAll ==
    (OpenReturned /\ ret # 0) =>
        (heap.freelist = entry.freelist /\ fds = entry.fds /\ rpools = entry.rpools)

\* C15: after nvme_controller_close() of a successfully opened controller the heap's
\* block list is what it was before the open, the admin queue pair's request pool
\* is freed, BAR0 is unmapped and its fd closed
C15_CloseReleasesAll ==
    last = "controller_close" =>
        /\ heap.freelist = entry.freelist
        /\ rpools = entry.rpools
        /\ fds = entry.fds
        /\ ctrlr.bar0.region = NULL

(* ---------------- nvme_controller_create_io_qpair, nvme_qid.h ---------------- *)

\* the last step was a call of nvme_controller_create_io_qpair() that returned
CreateReturned == tick' # tick /\ last' = "create_io_qpair"

\* payload addresses of the heap blocks in use
BusyBlocks(h) ==
    {h.freelist[k].addr : k \in {j \in DOMAIN h.freelist : h.freelist[j].free = 0}}

\* C16: every successful nvme_controller_create_io_qpair() takes a queue id that was
\* clear in the bitmap and sets it, and the queue pairs created and not released
\* have pairwise distinct queue ids, none of them 0
C16_CreatedQidsDistinct ==
    /\ [](\A a \in DOMAIN ioq :
            /\ ioq[a].qid # 0
            /\ \A b \in DOMAIN ioq : a # b => ioq[a].qid # ioq[b].qid)
    /\ [][(CreateReturned /\ ret' = 0) =>
            LET q == ioq'[Len(ioq')].qid IN q \notin qids /\ q \in qids']_vars

\* C17: a nvme_controller_create_io_qpair() that fails after it chose the queue id
\* returns with the qid bitmap as it was before the call and with no heap block
\* in use that was not in use before the call
C17_FailedCreateReleasesAll ==
    [][(CreateReturned /\ ret' # 0 /\ nvme_qid_find_free(qids) >= 1) =>
         /\ qids' = qids
         /\ BusyBlocks(heap') = BusyBlocks(heap)]_vars

\* C18: on an opened controller bit 0 of the qid bitmap is set in every state, and
\* nvme_qid_find_free() never returns 0
C18_AdminQidStaysReserved ==
    /\ 0 \in qids
    /\ last = "qid_find_free" => ret # 0

(* ---------------- hostmem_heap.h, further properties ---------------- *)

\* C21: after every hostmem_heap_block_free() no two consecutive blocks of the
\* block list are both free
C21_NoAdjacentFreeAfterFree ==
    last = "heap_free" =>
      \A k \in 1..(Len(heap.freelist) - 1) :
        ~(heap.freelist[k].free = 1 /\ heap.freelist[k + 1].free = 1)

\* two blocks were allocated and both were freed: the second free found a free
\* block on either side
C21_Witness ==
    /\ last = "heap_free"
    /\ held = {}
    /\ Len(entry.freelist) = 2
    /\ entry.freelist[1].free = 0
    /\ ret = entry.freelist[2].addr + PAGESIZE
    /\ Len(heap.freelist) = 1

\* the bytes block k of h owns past its header page: size bytes, and for the
\* last block of the list, whose size counts its header page, size - PAGESIZE
PayloadRange(h, k) ==
    LET b == h.freelist[k] IN
    [hi |-> IF k < Len(h.freelist) THEN b.addr + PAGESIZE + b.size ELSE b.addr + b.size,
     lo |-> b.addr + PAGESIZE]

\* the blocks of h in use
Allocated(h) == {k \in DOMAIN h.freelist : h.freelist[k].free = 0}

\* the step is a successful hostmem_heap_block_alloc(heap, n)
HeapAllocReturned(n) ==
    /\ HostStepTaken
    /\ last' = "heap_alloc"
    /\ ret' # NULL
    /\ ret' = hostmem_heap_block_alloc(heap, n).ptr
    /\ heap' = hostmem_heap_block_alloc(heap, n).heap

\* C22: the payloads of the allocated blocks are page-aligned, lie inside the heap,
\* overlap neither each other nor any block header, and every allocation of n bytes
\* returns a payload that holds n rounded up to pages
C22_PayloadsDisjoint ==
    /\ [](\A k \in Allocated(heap) :
            LET r == PayloadRange(heap, k) IN
              /\ r.lo % PAGESIZE = 0
              /\ 0 <= r.lo /\ r.lo <= r.hi /\ r.hi <= heap.size
              /\ \A j \in DOMAIN heap.freelist :
                   \/ heap.freelist[j].addr + SIZEOF_BLOCK <= r.lo
                   \/ r.hi <= heap.freelist[j].addr
              /\ \A j \in Allocated(heap) \ {k} :
                   \/ PayloadRange(heap, j).hi <= r.lo
                   \/ r.hi <= PayloadRange(heap, j).lo)
    /\ [][\A n \in HeapSizes :
            HeapAllocReturned(n) =>
              \E k \in Allocated(heap') :
                /\ PayloadRange(heap', k).lo = ret'
                /\ ret' + AlignUp(n, PAGESIZE) <= PayloadRange(heap', k).hi]_vars

\* two blocks are in use, the second one just allocated behind a free block
C22_Witness ==
    /\ last = "heap_alloc"
    /\ ret \in held
    /\ Cardinality(held) = 2
    /\ \E k \in DOMAIN heap.freelist :
         /\ heap.freelist[k].free = 1
         /\ heap.freelist[k].addr + PAGESIZE < ret

\* C23: hostmem_heap_block_alloc(heap, 0) fails with the invalid-argument error,
\* hostmem_heap_block_alloc(heap, heap size + 1) returns NULL with errno ENOMEM, and
\* both leave the block list as it was
C23_BadSizesRejected ==
    [][(HostStepTaken /\ last' = "heap_alloc") =>
         /\ (/\ ret' = hostmem_heap_block_alloc(heap, 0).ptr
             /\ heap' = hostmem_heap_block_alloc(heap, 0).heap)
              => (ret' = NULL /\ errno' = EINVAL /\ heap'.freelist = heap.freelist)
         /\ (/\ ret' = hostmem_heap_block_alloc(heap, heap.size + 1).ptr
             /\ heap' = hostmem_heap_block_alloc(heap, heap.size + 1).heap)
              => (ret' = NULL /\ errno' = ENOMEM /\ heap'.freelist = heap.freelist)]_vars

\* the n bytes from lo on lie in one hugepage
WithinOneHugepage(lo, n) == n = 0 \/ lo \div HUGEPGSZ = (lo + n - 1) \div HUGEPGSZ

\* C24 as claimed: on a heap of two hugepages every block hostmem_heap_block_alloc()
\* returns for a size of at most the hugepage size lies in one hugepage, all of the
\* pages it was rounded up to
C24_BlockWithinHugepage ==
    [][\A n \in Heap2Sizes :
         (HeapAllocReturned(n) /\ n <= HUGEPGSZ)
           => WithinOneHugepage(ret', AlignUp(n, PAGESIZE))]_vars

\* C24 as amended: every block it returns for a size of at most the page size lies
\* in one hugepage
C24_PageBlockWithinHugepage ==
    [][\A n \in Heap2Sizes :
         (HeapAllocReturned(n) /\ n <= PAGESIZE)
           => WithinOneHugepage(ret', AlignUp(n, PAGESIZE))]_vars

\* a one-page block was returned whose payload ends at the hugepage boundary, or
\* starts at it with its header in the hugepage before
C24_Witness ==
    /\ last = "heap_alloc"
    /\ ret \in held
    /\ \E k \in Allocated(heap) :
         /\ heap.freelist[k].addr + PAGESIZE = ret
         /\ heap.freelist[k].size = PAGESIZE
    /\ ret \in {HUGEPGSZ - PAGESIZE, HUGEPGSZ}

\* the hugepages of the heap are physically consecutive
LutContiguous(h) ==
    \A k \in 1..Len(h.phys_lut) : h.phys_lut[k] = h.phys_lut[1] + (k - 1) * HUGEPGSZ

PrepCalled == HostStepTaken /\ last' = "prep_prps"
PrepReturned == PrepCalled /\ pc' = "idle"

\* index of entry 0 of the PRP-list page of request c, and the indexes of that page
PrpFirst(c) == c * PrpEntries
PrpPage(c) == PrpFirst(c)..(PrpFirst(c) + PrpEntries - 1)

\* the entries of the PRP memory whose content the step changed
PrpChanged ==
    {k \in DOMAIN prpmem'.list : k \notin DOMAIN prpmem.list \/ prpmem'.list[k] # prpmem.list[k]}

\* C26: for a buffer of N = dbuf_nbytes >> pagesize_shift pages the call sets prp1 to
\* the physical address of the buffer; N = 1 leaves prp2 as it was, N = 2 sets prp2 to
\* the physical address of buffer + pagesize, N >= 3 sets prp2 to the physical address
\* of the request's PRP-list page and writes prp1 + i * pagesize to entry i - 1 for
\* i = 1..N-1 and to no other entry
C26_PrpsContig ==
    [][PrepReturned =>
         LET a == prpcall'
             N == a.dbuf_nbytes \div PAGESIZE
             first == PrpFirst(a.cid)
         IN /\ a.prp1 = hostmem_heap_block_vtp(heap, a.dbuf)
            /\ N = 1 => a.prp2 = prpcall.prp2 /\ prpmem' = prpmem
            /\ N = 2 => /\ a.prp2 = hostmem_heap_block_vtp(heap, a.dbuf + PAGESIZE)
                        /\ prpmem' = prpmem
            /\ N >= 3 =>
                 /\ a.prp2 = hostmem_heap_block_vtp(heap, prpmem.base + a.cid * PAGESIZE)
                 /\ \A j \in 1..(N - 1) :
                      /\ first + (j - 1) \in DOMAIN prpmem'.list
                      /\ prpmem'.list[first + (j - 1)] = a.prp1 + j * PAGESIZE
                 /\ PrpChanged \subseteq first..(first + N - 2)]_vars

\* a three-page transfer prepared on a request whose page still holds the 512
\* entries of an earlier transfer
C26_Witness ==
    /\ last = "prep_prps"
    /\ pc = "idle"
    /\ prpcall.dbuf_nbytes = 3 * PAGESIZE
    /\ prpcall.prp2 = hostmem_heap_block_vtp(heap, prpmem.base + prpcall.cid * PAGESIZE)
    /\ Cardinality(DOMAIN prpmem.list) >= PRP_LIST_MAX
    /\ prpmem.list[PrpFirst(prpcall.cid) + 1] = prpcall.prp1 + 2 * PAGESIZE

\* C27: a transfer of more than 513 pages is rejected with the command and the PRP
\* memory as they were, and an accepted transfer writes at most 512 entries, all of
\* them inside the PRP-list page of the request
C27_PrpListBounded ==
    [][PrepCalled =>
         LET a == prpcall'
             N == a.dbuf_nbytes \div PAGESIZE
         IN /\ N > 1 + PRP_LIST_MAX =>
                 /\ a.prp1 = prpcall.prp1
                 /\ a.prp2 = prpcall.prp2
                 /\ prpmem' = prpmem
            /\ N <= 1 + PRP_LIST_MAX =>
                 /\ PrpChanged \subseteq PrpPage(a.cid)
                 /\ Cardinality(PrpChanged) <= PRP_LIST_MAX]_vars

\* the second half alone: what an accepted transfer writes
PrpAcceptedWithinPage ==
    [][PrepCalled /\ prpcall'.dbuf_nbytes \div PAGESIZE <= 1 + PRP_LIST_MAX =>
         PrpChanged \subseteq PrpPage(prpcall'.cid)]_vars


(* ---------------- nvme_mmio.h, the CC accessors ---------------- *)

\* C28: for every CC field with a setter and a getter and every value v that fits the
\* field, the getter returns v from what the setter returned, and the setter changes
\* no bit outside the field; the CC value built from IOSQES = 6, IOCQES = 4, EN = 1 is
\* 0x00460001 and reads back as 6, 4 and 1
C28_CcSetGet ==
    /\ fcall.fn = "cc_set" =>
         LET l == CcLayout(fcall.field)
             above == Pow2(l.offset + l.width)
         IN /\ nvme_reg_cc_get(fcall.field, fcall.out) = fcall.val
            /\ fcall.out % Pow2(l.offset) = fcall.cc % Pow2(l.offset)
            /\ fcall.out \div above = fcall.cc \div above
    /\ OpenCc = 4587521
    /\ fcall.fn = "cc_set" /\ fcall.out = OpenCc =>
         /\ nvme_reg_cc_get_iosqes(fcall.out) = 6
         /\ nvme_reg_cc_get_iocqes(fcall.out) = 4
         /\ nvme_reg_cc_get_en(fcall.out) = 1

\* what holds of the setters alone: only the bits of the field change, and they hold v
CcSetWritesField ==
    fcall.fn = "cc_set" =>
        LET l == CcLayout(fcall.field)
            above == Pow2(l.offset + l.width)
        IN /\ bitfield_get(fcall.out, l.offset, l.width) = fcall.val
           /\ fcall.out % Pow2(l.offset) = fcall.cc % Pow2(l.offset)
           /\ fcall.out \div above = fcall.cc \div above


(* ---------------- pci.h, the function address ---------------- *)

\* the number a run of hexadecimal digits stands for
RECURSIVE HexNum(_)
HexNum(ds) == IF ds = <<>> THEN 0 ELSE 16 * HexNum(SubSeq(ds, 1, Len(ds) - 1)) + HexVal(ds[Len(ds)])

\* the text with its letters A..F in lower case
Lower(text) == [k \in DOMAIN text |-> IF HexVal(text[k]) >= 10 THEN HexChar(HexVal(text[k])) ELSE text[k]]

PciStep == HostStepTaken /\ last' \in {"pci_func_open", "pci_bar_map", "pci_bar_unmap", "pci_func_close"}

\* the system calls of log, made one after the other with the descriptors open_fds
\* open and the regions mapped, never close a descriptor that is not open (or one of
\* the standard descriptors) and never unmap a region that is not mapped
RECURSIVE SysOk(_, _, _)
SysOk(log, open_fds, mapped) ==
    IF log = <<>> THEN TRUE
    ELSE LET e == Head(log) IN
         CASE e.op = "open" -> SysOk(Tail(log), open_fds \cup {e.arg}, mapped)
           [] e.op = "mmap" -> SysOk(Tail(log), open_fds, mapped \cup {e.arg})
           [] e.op = "close" -> /\ e.arg \in open_fds \ StdFds
                                /\ SysOk(Tail(log), open_fds \ {e.arg}, mapped)
           [] e.op = "munmap" -> /\ e.arg \in mapped
                                 /\ SysOk(Tail(log), open_fds, mapped \ {e.arg})

\* every BAR of the function has fd = -1 and no region
BarsAtRest == \A id \in DOMAIN func.bars : func.bars[id] = [fd |-> -1, region |-> NULL]

\* C30: over every sequence of pci_func_open, pci_bar_map (succeeding, or failing at
\* stat, open or mmap), pci_bar_unmap and pci_func_close on one function, a descriptor
\* pci_bar_map opened is closed exactly once and a mapped region unmapped exactly
\* once; after pci_func_close every BAR has fd = -1 and no region; a repeated
\* pci_bar_unmap or pci_func_close changes nothing
C30_BarLifecycle ==
    /\ [](last = "pci_func_close" => BarsAtRest /\ fds = StdFds /\ pcisys.mapped = {})
    /\ [][PciStep => SysOk(pcisys'.log, fds, pcisys.mapped)]_vars
    /\ [][PciStep /\ last = "pci_func_close" /\ last' = "pci_func_close" =>
            func' = func /\ fds' = fds /\ pcisys'.mapped = pcisys.mapped /\ pcisys'.log = <<>>]_vars
    /\ [][PciStep /\ last = "pci_bar_unmap" /\ last' = "pci_bar_unmap" /\ pcisys'.id = pcisys.id =>
            func' = func /\ fds' = fds /\ pcisys'.mapped = pcisys.mapped /\ pcisys'.log = <<>>]_vars

\* what holds of it: the state after pci_func_close, and the repeated calls
PciCloseLeavesNothing ==
    /\ [](last = "pci_func_close" => BarsAtRest /\ fds = StdFds /\ pcisys.mapped = {})
    /\ [][PciStep /\ last = "pci_func_close" /\ last' = "pci_func_close" =>
            func' = func /\ fds' = fds /\ pcisys'.mapped = pcisys.mapped /\ pcisys'.log = <<>>]_vars
    /\ [][PciStep /\ last = "pci_bar_unmap" /\ last' = "pci_bar_unmap" /\ pcisys'.id = pcisys.id =>
            func' = func /\ fds' = fds /\ pcisys'.mapped = pcisys.mapped /\ pcisys'.log = <<>>]_vars

(* ---------------- hostmem_hugepage.h, free ---------------- *)

\* the step of hostmem_hugepage_free() on a descriptor that a successful
\* hostmem_hugepage_alloc() or hostmem_hugepage_import() filled
HugeFreeOfLive ==
    /\ HostStepTaken
    /\ last' = "hugepage_free"
    /\ hugepage.virt \in hugesys.mapped

\* C31: hostmem_hugepage_free of a descriptor obtained from hostmem_hugepage_alloc or
\* hostmem_hugepage_import unmaps the region, closes the descriptor's fd and, under
\* the hugetlbfs backend, unlinks the file: the fd the allocation opened is no longer
\* open after the free
C31_FreeReleasesAll ==
    [][HugeFreeOfLive =>
         /\ hugepage.virt \notin hugesys'.mapped
         /\ hugepage.fd \notin fds'
         /\ (g_hostmem_state.backend = HOSTMEM_BACKEND_HUGETLBFS =>
               hugepage.path \notin hugesys'.files)]_vars

\* what holds of it: the region is unmapped, the file unlinked, the descriptor zeroed
HugeFreeUnmapsAndUnlinks ==
    [][HugeFreeOfLive =>
         /\ hugepage.virt \notin hugesys'.mapped
         /\ hugepage' = ZeroHugepage
         /\ (g_hostmem_state.backend = HOSTMEM_BACKEND_HUGETLBFS =>
               hugepage.path \notin hugesys'.files)]_vars

(* ---------------- nvme_qpair.h, ordering against the device ---------------- *)

\* the device fetches an SQE; the host reaps a completion
DevFetches == dev'.sqhd # dev.sqhd

\* C32: a write barrier stands between the SQE store of nvme_qpair_enqueue and the
\* doorbell write of nvme_qpair_sqdb_update, and nvme_qpair_reap_cpl issues a read
\* barrier between the phase check and the copy of the CQE, so that on a weakly
\* ordered host the device never fetches a stale SQE and the host never consumes a
\* stale CQE
C32_NoStaleSqeOrCqe ==
    /\ [][DevFetches => dma.sqdev[dev.sqhd] = sq[dev.sqhd]]_vars
    /\ [][ReapSucceeds => dma'.cpl_dw0 = dma.dw0[qp.head]]_vars

(* ---------------- nvme_controller.h, the create commands ---------------- *)

RoomAt(h, ptr) ==
    LET k == CHOOSE j \in DOMAIN h.freelist : h.freelist[j].addr + PAGESIZE = ptr
        p == PayloadRange(h, k)
    IN p.hi - p.lo

\* queue pair q has room for depth commands in its SQ and depth completions in its CQ
QueuesHold(h, q) ==
    /\ q.depth * SIZEOF_COMMAND <= RoomAt(h, q.sq)
    /\ q.depth * SIZEOF_COMPLETION <= RoomAt(h, q.cq)

\* C34: for every depth nvme_qpair_init accepts, the SQ allocation holds at least
\* depth 64-byte entries and the CQ allocation at least depth 16-byte entries, so
\* that every slot index below depth lies inside its allocation
C34_QueuesHoldDepth == \A k \in DOMAIN ioq : QueuesHold(heap, ioq[k])

\* what holds of it: queue pairs of at most QUEUE_NBYTES / 64 entries have the room
QueuesHoldSmallDepth ==
    \A k \in DOMAIN ioq :
        ioq[k].depth <= QUEUE_NBYTES \div SIZEOF_COMMAND => QueuesHold(heap, ioq[k])

(* ---------------- nvme_qid.h, the range of the bitmap ---------------- *)

\* a call of one of the accessors with an argument they accept
QidAccess(q) == q < NVME_QID_MAX /\ (QidAlloc(q) \/ QidFree(q) \/ QidIsAllocated(q))

\* C35: for every qid < NVME_QID_MAX nvme_qid_alloc, nvme_qid_free and
\* nvme_qid_is_allocated address a word with index below NVME_QID_BITMAP_WORDS, and
\* nvme_qid_find_free reports that no qid is free only when every I/O qid 1..65534
\* is handed out
C35_BitmapCoversAllQids ==
    /\ [][\A q \in WideQidArgs :
            QidAccess(q) => nvme_qid_word(q) < NVME_QID_BITMAP_WORDS]_vars
    /\ []((last = "qid_find_free" /\ ret = -ENOMEM) =>
            \A q \in 1..(NVME_QID_MAX - 1) : q \in qids)

(* ---------------- hostmem_heap.h, aligned allocations ---------------- *)

\* the block whose extent, header included, holds the address ptr
OwnerBlock(fl, ptr) ==
    CHOOSE k \in DOMAIN fl :
      fl[k].addr < ptr /\ (k = Len(fl) \/ ptr < fl[k + 1].addr)

\* C36: the payload pointer hostmem_heap_block_alloc_aligned() returns is a multiple
\* of the alignment asked for, and hostmem_heap_block_free() of a pointer the caller
\* holds marks free exactly the block that its allocation marked busy
C36_AlignedAllocAndFree ==
    /\ [][\A n \in AlignedSizes, a \in Alignments :
            (HeapAllocAligned(n, a) /\ ret' # NULL) => ret' % a = 0]_vars
    /\ [][\A p \in held :
            HeapFree(p) =>
              BusyBlocks(heap') =
                BusyBlocks(heap) \ {heap.freelist[OwnerBlock(heap.freelist, p)].addr}]_vars

(* ---------------- nvme_request.h, frees of cids that are free ---------------- *)

\* the cells of the free stack that hold cid c
CellsOf(pool, c) == {k \in 0..(pool.top - 1) : StackAt(pool, k) = c}

\* C37: nvme_request_free() enforces top < NVME_REQUEST_POOL_LEN and nothing else:
\* with a request outstanding it accepts every cid without an error, and a cid that
\* was on the free stack then sits on it twice and is what nvme_request_alloc()
\* returns for each of the two cells
C37_DoubleFreeAccepted ==
    [][\A c \in AnyFrees :
         (RequestFreeCall(c) /\ rpool.top < NVME_REQUEST_POOL_LEN) =>
           /\ pc' = "idle"
           /\ errno' = errno
           /\ rpool'.top = rpool.top + 1
           /\ CellsOf(rpool', c) = CellsOf(rpool, c) \cup {rpool.top}
           /\ (CellsOf(rpool, c) # {} => Cardinality(CellsOf(rpool', c)) >= 2)
           /\ \A k \in CellsOf(rpool', c) :
                nvme_request_alloc([rpool' EXCEPT !.top = k + 1]).req = c]_vars

\* a cid was freed while free, and nvme_request_alloc() has just returned it while
\* it still sits on the free stack
C37_Witness ==
    /\ last = "request_alloc"
    /\ ret # NULL
    /\ rpool.top < NVME_REQUEST_POOL_LEN - 1
    /\ CellsOf(rpool, ret) # {}

(* ---------------- termination of the polling loops ---------------- *)

\* C38: nvme_qpair_reap_cpl, nvme_qpair_submit_sync and the two CSTS wait functions
\* return whatever the device does: a polling loop never makes more rounds than its
\* timeout argument, and a call that entered its loop leaves it
C38_PollingLoopsTerminate ==
    /\ [](pc = "reap" => (i <= timeout_us /\ nsleep <= timeout_us))
    /\ [](pc = "wait" => elapsed <= timeout_ms)
    /\ (pc = "reap") ~> (pc = "idle")
    /\ (pc = "wait") ~> (pc = "idle")

\* the loop of a submit_sync used up its timeout and the device has posted nothing
C38_Witness ==
    /\ pc = "reap"
    /\ caller = "submit_sync"
    /\ timeout_us = 2
    /\ i = timeout_us
    /\ nsleep = 2
    /\ posted = <<>>

(* ---------------- nvme_qpair_submit_sync, cids from the device ---------------- *)

\* C39: whatever cid below 0xFFFF the device posts, top stays in 0..1024, every
\* value on the free stack is a cid of the pool, and nvme_request_alloc() returns a
\* slot of reqs[0..1023]
C39_StackHoldsPoolCids ==
    /\ rpool.top \in 0..NVME_REQUEST_POOL_LEN
    /\ \A k \in 0..(rpool.top - 1) : StackAt(rpool, k) \in AllCids
    /\ rpool.top > 0 => nvme_request_alloc(rpool).req \in AllCids

(* ---------------- nvme_qpair_enqueue on a full queue ---------------- *)

\* commands enqueued whose completion has not been reaped
Outstanding == nenq - nreap

\* the step is a call of nvme_qpair_enqueue()
EnqueueReturned == last' = "enqueue" /\ HostStepTaken

\* C40: nvme_qpair_enqueue() stores into a slot only when the command the slot held
\* has been reaped, and with depth - 1 commands outstanding it returns an error and
\* leaves tail and the SQ as they are
C40_EnqueueRefusesWhenFull ==
    /\ [][(EnqueueReturned /\ ret' = 0) => Outstanding < qp.depth]_vars
    /\ [][(EnqueueReturned /\ Outstanding >= qp.depth - 1) =>
            (ret' # 0 /\ qp'.tail = qp.tail /\ sq' = sq)]_vars

============================================================================
